---- MODULE Spec2Model ----
(***************************************************************************)
(* A model of git-cuttle's metadata store (metadata_manager.py), its       *)
(* transaction executor (transaction.py) and the ref/worktree operations   *)
(* of git_ops.py that transactions are built from.                         *)
(*                                                                         *)
(* Python values are modelled as follows.  A str is a sequence of tokens   *)
(* (so that str(Path) and Path(str) are real conversions); a Path is its   *)
(* normalised form [root, parts]; an Optional[str] is None or Some(s); a   *)
(* dict is a function; a tuple or list is a sequence.  A JSON document is  *)
(* a tree of tagged values; a file's text is the document it encodes plus  *)
(* how many of its Chunks have reached the file.                           *)
(***************************************************************************)
EXTENDS Integers, Sequences, FiniteSets, TLC

\* ---------------------------------------------------------------- bounds

\* Longest transaction the model builds (steps added with add_step).
MaxSteps == 5
\* Number of write() calls a file's text takes to reach the file.
Chunks == 2
\* I/O faults injected into one run of the metadata processes.
MaxFaults == 1

\* ------------------------------------------------------- program constants

SCHEMA_VERSION == 1

\* -------------------------------------------------------------- strings

S(tok) == <<tok>>

RECURSIVE Join(_)
\* "/".join(parts), as tokens
Join(parts) ==
    IF parts = << >> THEN << >>
    ELSE IF Len(parts) = 1 THEN <<parts[1]>>
    ELSE <<parts[1], "/">> \o Join(Tail(parts))

\* ----------------------------------------------------------------- paths

\* pathlib.PurePosixPath: the anchor ("", "/" or "//") and the components.
MkPath(root, parts) == [root |-> root, parts |-> parts]

\* str(path)
PathStr(p) ==
    IF p.root = "" /\ p.parts = << >> THEN <<".">>
    ELSE (CASE p.root = "" -> << >>
            [] p.root = "/" -> <<"/">>
            [] p.root = "//" -> <<"/", "/">>) \o Join(p.parts)

RECURSIVE LeadingSlashes(_)
LeadingSlashes(s) ==
    IF s # << >> /\ s[1] = "/" THEN 1 + LeadingSlashes(Tail(s)) ELSE 0

RECURSIVE Components(_)
\* the components of a path string: split on "/", "" and "." dropped
Components(s) ==
    IF s = << >> THEN << >>
    ELSE IF s[1] \in {"/", "."} THEN Components(Tail(s))
    ELSE <<s[1]>> \o Components(Tail(s))

\* Path(s): POSIX keeps exactly two leading slashes, folds three or more
PathFromStr(s) ==
    LET n == LeadingSlashes(s)
    IN  MkPath(IF n = 0 THEN "" ELSE IF n = 2 THEN "//" ELSE "/", Components(s))

\* Path.is_absolute()
IsAbsolute(p) == p.root # ""

\* The symbolic links of the modelled file system: /link -> /repos.
SymlinkTarget(part) == IF part = "link" THEN "repos" ELSE part

\* Path.resolve(strict=False): realpath folds "//" into "/" and follows the
\* link of the first component
Resolve(p) ==
    LET root == IF p.root = "//" THEN "/" ELSE p.root
    IN  IF p.parts = << >> THEN MkPath(root, p.parts)
        ELSE MkPath(root, <<SymlinkTarget(p.parts[1])>> \o Tail(p.parts))

\* ------------------------------------------------------- optional values

None == [t |-> "none"]
Some(s) == [t |-> "some", v |-> s]

\* ------------------------------------------------------------------ JSON

JNull == [t |-> "null"]
JStr(s) == [t |-> "str", v |-> s]
JInt(n) == [t |-> "int", v |-> n]
JList(items) == [t |-> "list", v |-> items]
JObj(f) == [t |-> "obj", v |-> f]

\* dict.get(key): None (JSON null) for a missing key
JGet(o, k) == IF k \in DOMAIN o.v THEN o.v[k] ELSE JNull

IsJStr(j) == j.t = "str"
IsJObj(j) == j.t = "obj"

\* A file's text: the document, and how much of the text is in the file.
Text(doc) == [doc |-> doc, written |-> Chunks]
PartialText(doc, n) == [doc |-> doc, written |-> n]

\* json.loads(text): a truncated or empty text does not parse
JsonLoads(text) ==
    IF text.written = Chunks THEN [ok |-> TRUE, doc |-> text.doc]
    ELSE [ok |-> FALSE, doc |-> JNull]

\* json.dumps(doc, indent=2)
JsonDumps(doc) == Text(doc)

\* ------------------------------------------------------------ timestamps

IsoDates == {"2026-03-01T00:00:00", "2026-03-02T00:00:00"}

\* value.replace("Z", "+00:00")
ReplaceZ(s) == [i \in DOMAIN s |-> IF s[i] = "Z" THEN "+00:00" ELSE s[i]]

\* datetime.fromisoformat accepts a date-time with or without an offset
FromIsoFormatOk(s) ==
    /\ Len(s) \in {1, 2}
    /\ s[1] \in IsoDates
    /\ Len(s) = 2 => s[2] = "+00:00"

ValidTimestamp(value) == FromIsoFormatOk(ReplaceZ(value))

\* ------------------------------------------------------------- serialize

SerializeOptional(x) == IF x = None THEN JNull ELSE JStr(x.v)

SerializeParentsReversed(parents) ==
    JList([i \in DOMAIN parents |-> JStr(parents[Len(parents) + 1 - i])])

SerializeParents(parents) == JList([i \in DOMAIN parents |-> JStr(parents[i])])

SerializeWorkspace(w) ==
    JObj([branch |-> JStr(w.branch),
          worktree_path |-> JStr(PathStr(w.worktree_path)),
          tracked_remote |-> SerializeOptional(w.tracked_remote),
          kind |-> JStr(w.kind),
          base_ref |-> JStr(w.base_ref),
          octopus_parents |-> SerializeParents(w.octopus_parents),
          created_at |-> JStr(w.created_at),
          updated_at |-> JStr(w.updated_at)])

SerializeRepo(r) ==
    JObj([git_dir |-> JStr(PathStr(r.git_dir)),
          repo_root |-> JStr(PathStr(r.repo_root)),
          default_remote |-> SerializeOptional(r.default_remote),
          tracked_at |-> JStr(r.tracked_at),
          updated_at |-> JStr(r.updated_at),
          workspaces |-> JObj([k \in DOMAIN r.workspaces |->
                                  SerializeWorkspace(r.workspaces[k])])])

SerializeWorkspacesMetadata(m) ==
    JObj([version |-> JInt(m.version),
          repos |-> JObj([k \in DOMAIN m.repos |-> SerializeRepo(m.repos[k])])])

\* ----------------------------------------------------------------- parse

OptionalOk(j) == j.t \in {"null", "str"}
ParseOptional(j) == IF j.t = "null" THEN None ELSE Some(j.v)

ParentsOk(j) == j.t = "list" /\ \A i \in DOMAIN j.v : IsJStr(j.v[i])
ParseParents(j) == [i \in DOMAIN j.v |-> j.v[i].v]

WorkspaceOk(j) ==
    /\ IsJObj(j)
    /\ ParentsOk(JGet(j, "octopus_parents"))
    /\ JGet(j, "kind") \in {JStr(S("standard")), JStr(S("octopus"))}
    /\ OptionalOk(JGet(j, "tracked_remote"))
    /\ \A f \in {"branch", "worktree_path", "base_ref", "created_at", "updated_at"} :
          IsJStr(JGet(j, f))

ParseWorkspace(j) ==
    [branch |-> JGet(j, "branch").v,
     worktree_path |-> PathFromStr(JGet(j, "worktree_path").v),
     tracked_remote |-> ParseOptional(JGet(j, "tracked_remote")),
     kind |-> JGet(j, "kind").v,
     base_ref |-> JGet(j, "base_ref").v,
     octopus_parents |-> ParseParents(JGet(j, "octopus_parents")),
     created_at |-> JGet(j, "created_at").v,
     updated_at |-> JGet(j, "updated_at").v]

RepoOk(j) ==
    /\ IsJObj(j)
    /\ IsJObj(JGet(j, "workspaces"))
    /\ \A k \in DOMAIN JGet(j, "workspaces").v : WorkspaceOk(JGet(j, "workspaces").v[k])
    /\ OptionalOk(JGet(j, "default_remote"))
    /\ \A f \in {"git_dir", "repo_root", "tracked_at", "updated_at"} : IsJStr(JGet(j, f))

ParseRepo(j) ==
    [git_dir |-> PathFromStr(JGet(j, "git_dir").v),
     repo_root |-> PathFromStr(JGet(j, "repo_root").v),
     default_remote |-> ParseOptional(JGet(j, "default_remote")),
     tracked_at |-> JGet(j, "tracked_at").v,
     updated_at |-> JGet(j, "updated_at").v,
     workspaces |-> [k \in DOMAIN JGet(j, "workspaces").v |->
                        ParseWorkspace(JGet(j, "workspaces").v[k])]]

\* whether _parse_workspaces_metadata returns (it raises ValueError otherwise)
ParseOk(raw) ==
    /\ IsJObj(raw)
    /\ JGet(raw, "version").t = "int"
    /\ IsJObj(JGet(raw, "repos"))
    /\ \A k \in DOMAIN JGet(raw, "repos").v : RepoOk(JGet(raw, "repos").v[k])

ParseWorkspacesMetadata(raw) ==
    [version |-> JGet(raw, "version").v,
     repos |-> [k \in DOMAIN JGet(raw, "repos").v |-> ParseRepo(JGet(raw, "repos").v[k])]]

\* -------------------------------------------------------------- validate

WorkspaceValid(key, w) ==
    /\ key = w.branch
    /\ IsAbsolute(w.worktree_path)
    /\ ValidTimestamp(w.created_at)
    /\ ValidTimestamp(w.updated_at)
    /\ ~(w.kind = S("standard") /\ w.octopus_parents # << >>)
    /\ ~(w.kind = S("octopus") /\ Len(w.octopus_parents) < 2)

RepoValidAnyKey(key, r) ==
    /\ IsAbsolute(r.git_dir)
    /\ IsAbsolute(r.repo_root)
    /\ ValidTimestamp(r.tracked_at)
    /\ ValidTimestamp(r.updated_at)
    /\ \A k \in DOMAIN r.workspaces : WorkspaceValid(k, r.workspaces[k])
    /\ \A k1, k2 \in DOMAIN r.workspaces :
          r.workspaces[k1].worktree_path = r.workspaces[k2].worktree_path => k1 = k2

RepoValid(key, r) ==
    /\ IsAbsolute(r.git_dir)
    /\ key = PathStr(Resolve(r.git_dir))
    /\ r.git_dir = Resolve(r.git_dir)
    /\ IsAbsolute(r.repo_root)
    /\ ValidTimestamp(r.tracked_at)
    /\ ValidTimestamp(r.updated_at)
    /\ \A k \in DOMAIN r.workspaces : WorkspaceValid(k, r.workspaces[k])
    \* seen_worktree_paths: no two workspaces of a repo share a path
    /\ \A k1, k2 \in DOMAIN r.workspaces :
          r.workspaces[k1].worktree_path = r.workspaces[k2].worktree_path => k1 = k2

\* whether _validate_workspaces_metadata returns (it raises ValueError otherwise)
ValidateWorkspacesMetadata(m) ==
    /\ m.version = SCHEMA_VERSION
    /\ \A k \in DOMAIN m.repos : RepoValid(k, m.repos[k])

\* --------------------------------------------------------------- migrate

MigrateV0ToV1(raw) == JObj([raw.v EXCEPT !.version = JInt(1)])

\* _MIGRATIONS: the versions a migration is registered for
Migrations == {0}

ApplyMigration(from, raw) == CASE from = 0 -> MigrateV0ToV1(raw)

RECURSIVE MigrateLoop(_, _)
MigrateLoop(doc, current) ==
    IF current >= SCHEMA_VERSION THEN [ok |-> TRUE, doc |-> doc, migrated |-> TRUE]
    ELSE IF current \notin Migrations THEN [ok |-> FALSE, doc |-> doc, migrated |-> FALSE]
    ELSE LET next == ApplyMigration(current, doc)
         IN  IF JGet(next, "version") # JInt(current + 1)
             THEN [ok |-> FALSE, doc |-> doc, migrated |-> FALSE]
             ELSE MigrateLoop(next, current + 1)

\* _migrate_workspaces_metadata: ok = FALSE where it raises ValueError
MigrateWorkspacesMetadata(raw) ==
    IF ~IsJObj(raw) \/ JGet(raw, "version").t # "int" \/ JGet(raw, "version").v > SCHEMA_VERSION
    THEN [ok |-> FALSE, doc |-> raw, migrated |-> FALSE]
    ELSE IF JGet(raw, "version").v = SCHEMA_VERSION
    THEN [ok |-> TRUE, doc |-> raw, migrated |-> FALSE]
    ELSE MigrateLoop(raw, JGet(raw, "version").v)

\* ------------------------------------------------------------ file system

\* The directory of the metadata file: a function from the names that exist
\* to each file's text.
MetaName == <<"workspaces.json">>
TmpName(id) == <<".workspaces.json.", id, ".tmp">>
BakName(ts) == <<"workspaces.json.bak.", ts>>
BakTmpName(ts, id) == <<".workspaces.json.bak.", ts, ".", id, ".tmp">>

IsTmp(name) == name[Len(name)] = ".tmp"
IsBak(name) == name[1] = "workspaces.json.bak."

Exists(fs, name) == name \in DOMAIN fs

\* the directory with `name` holding `text`
Put(fs, name, text) ==
    [n \in DOMAIN fs \cup {name} |-> IF n = name THEN text ELSE fs[n]]

\* the directory without `name`  (unlink, missing_ok=True)
Unlink(fs, name) == [n \in DOMAIN fs \ {name} |-> fs[n]]

\* os.replace(src, dst)
Replace(fs, src, dst) == IF src = dst THEN fs ELSE Unlink(Put(fs, dst, fs[src]), src)

\* The clock of _write_migration_backup, in whole seconds.
Timestamps == <<"1700000000", "1700000001", "1700000002", "1700000003">>

FreeBackupIndexFromClock(fs, i) == i

RECURSIVE FreeBackupIndex(_, _)
\* while backup_path.exists(): timestamp += 1
FreeBackupIndex(fs, i) ==
    IF i < Len(Timestamps) /\ Exists(fs, BakName(Timestamps[i]))
    THEN FreeBackupIndex(fs, i + 1) ELSE i

EmptyMetadata == [version |-> SCHEMA_VERSION, repos |-> << >>]

\* The part of MetadataManager.read after read_text: the value it returns, or
\* ok = FALSE where it raises; migrated says whether the file is rewritten.
Decode(text) ==
    LET loaded == JsonLoads(text)
        mig == MigrateWorkspacesMetadata(loaded.doc)
        good == /\ loaded.ok /\ mig.ok /\ ParseOk(mig.doc)
                /\ ValidateWorkspacesMetadata(ParseWorkspacesMetadata(mig.doc))
    IN  [ok |-> good,
         fails_before_rewrite |-> ~loaded.ok \/ ~mig.ok,
         migrated |-> loaded.ok /\ mig.ok /\ mig.migrated,
         doc |-> mig.doc,
         value |-> IF good THEN ParseWorkspacesMetadata(mig.doc) ELSE EmptyMetadata]

\* _atomic_write_text with no I/O error: the text appears under `path` whole
AtomicWriteText(fs, path, content) == Put(fs, path, content)

\* MetadataManager.read run to its end with no I/O error, at clock index now
ReadWhole(fs, now) ==
    IF ~Exists(fs, MetaName) THEN [ok |-> TRUE, value |-> EmptyMetadata, fs |-> fs]
    ELSE LET d == Decode(fs[MetaName])
             bak == BakName(Timestamps[FreeBackupIndex(fs, now)])
             rewritten == AtomicWriteText(AtomicWriteText(fs, bak, fs[MetaName]),
                                          MetaName, JsonDumps(d.doc))
         IN  [ok |-> d.ok, value |-> d.value,
              fs |-> IF d.migrated THEN rewritten ELSE fs]

\* MetadataManager.write run to its end with no I/O error
WriteWhole(fs, m) ==
    IF ~ValidateWorkspacesMetadata(m) THEN [ok |-> FALSE, fs |-> fs]
    ELSE [ok |-> TRUE,
          fs |-> AtomicWriteText(fs, MetaName, JsonDumps(SerializeWorkspacesMetadata(m)))]

\* The repositories commands run in: what git reports for each cwd.
GitDirA == MkPath("/", <<"repos", "demo", ".git">>)
GitDirB == MkPath("/", <<"repos", "other", ".git">>)
GitDirC == MkPath("/", <<"link", "third", ".git">>)
CwdRepo(cwd) ==
    CASE cwd = "A" ->
            [git_dir |-> GitDirA, repo_root |-> MkPath("/", <<"repos", "demo">>),
             default_remote |-> Some(S("origin"))]
      [] cwd = "B" ->
            [git_dir |-> GitDirB, repo_root |-> MkPath("/", <<"repos", "other">>),
             default_remote |-> None]
      [] cwd = "C" ->
            [git_dir |-> GitDirC, repo_root |-> MkPath("/", <<"link", "third">>),
             default_remote |-> Some(S("upstream"))]
         \* a linked worktree of repository A, named by its branch
      [] OTHER ->
            [git_dir |-> MkPath("/", <<"repos", "demo", ".git", "worktrees", cwd>>),
             repo_root |-> MkPath("/", <<"data", "gitcuttle", "demo-1a2b3c4d", cwd>>),
             default_remote |-> Some(S("origin"))]

\* str(canonical_git_dir(cwd))
RepoKey(cwd) == PathStr(Resolve(CwdRepo(cwd).git_dir))

TrackedMetadataUnchanged(metadata, cwd, timestamp) == metadata

TrackedMetadataAnew(metadata, cwd, timestamp) ==
    [version |-> metadata.version,
     repos |-> [k \in DOMAIN metadata.repos \cup {RepoKey(cwd)} |->
                   IF k = RepoKey(cwd)
                   THEN [git_dir |-> Resolve(CwdRepo(cwd).git_dir),
                         repo_root |-> CwdRepo(cwd).repo_root,
                         default_remote |-> CwdRepo(cwd).default_remote,
                         tracked_at |-> timestamp,
                         updated_at |-> timestamp,
                         workspaces |-> << >>]
                   ELSE metadata.repos[k]]]

\* The value ensure_repo_tracked writes, from the value it read.
TrackedMetadata(metadata, cwd, timestamp) ==
    LET repo_key == RepoKey(cwd)
        existing == repo_key \in DOMAIN metadata.repos
        updated_repo ==
            [git_dir |-> Resolve(CwdRepo(cwd).git_dir),
             repo_root |-> CwdRepo(cwd).repo_root,
             default_remote |-> CwdRepo(cwd).default_remote,
             tracked_at |-> IF existing THEN metadata.repos[repo_key].tracked_at
                            ELSE timestamp,
             updated_at |-> timestamp,
             workspaces |-> IF existing THEN metadata.repos[repo_key].workspaces
                            ELSE << >>]
    IN  [version |-> metadata.version,
         repos |-> [k \in DOMAIN metadata.repos \cup {repo_key} |->
                       IF k = repo_key THEN updated_repo ELSE metadata.repos[k]]]

\* MetadataManager.ensure_repo_tracked run to its end with no I/O error
EnsureRepoTrackedWhole(fs, cwd, timestamp, now) ==
    LET r == ReadWhole(fs, now)
    IN  IF ~r.ok THEN [ok |-> FALSE, fs |-> r.fs]
        ELSE WriteWhole(r.fs, TrackedMetadata(r.value, cwd, timestamp))

\* ------------------------------------------------------------- variables

VARIABLES
    \* Transaction: _steps, and where run() is
    steps, pc, cursor, completed_steps, to_roll_back,
    rollback_failures, rolled_back_step_names, operation_error, raised,
    \* every apply and rollback invoked, in order, with how it ended
    calls,
    \* the git repository: refs (name -> OID) and the worktree paths on disk
    refs, worktrees,
    \* the repository and the metadata value before the transaction
    original_refs, original_metadata,
    \* the directory of the metadata file
    files,
    \* the processes using the metadata file: where each is in its command and
    \* its local variables; how its last command ended; the commands started
    \* and the I/O errors injected so far
    proc, result, started, faults,
    \* a caller that writes a value and reads it back
    rt_pc, rt_value, rt_read,
    \* RemoteStatusCache: ttl_seconds, _entries, the calls the resolver has had,
    \* and the last call of statuses_for_repo
    ttl_seconds, entries, resolver_calls, cache_last,
    \* the working trees of the repository: the linked worktrees with
    \* uncommitted changes and the branch checked out in the main worktree;
    \* the last command run on the repository and the commands still to run
    dirty, current, cmd, commands_left

txnVars == <<steps, pc, cursor, completed_steps, to_roll_back, rollback_failures,
             rolled_back_step_names, operation_error, raised, calls>>
gitVars == <<refs, worktrees, original_refs, original_metadata>>
procVars == <<proc, result, started, faults>>
rtVars == <<rt_pc, rt_value, rt_read>>
cacheVars == <<ttl_seconds, entries, resolver_calls, cache_last>>
cmdVars == <<dirty, current, cmd, commands_left>>
vars == <<txnVars, gitVars, files, procVars, rtVars, cacheVars, cmdVars>>

\* ------------------------------------------------------------------- git

BACKUP_REF_PREFIX == <<"refs", "gitcuttle", "txn">>

TxnId == "txn-1"
OtherTxnId == "txn-0"
Branch == "feature/demo"
OriginalOid == "oid-original"
UpdatedOid == "oid-updated"
WorktreePath == MkPath("/", <<"tmp", "feature-demo-wt">>)
TxnTimestamp == <<"2026-03-01T00:00:00", "Z">>

HeadRef(branch) == <<"refs", "heads", branch>>

backup_ref_for_branch(txn_id, branch) == BACKUP_REF_PREFIX \o <<txn_id, "heads", branch>>

\* whether ref lies under prefix (git for-each-ref <prefix>)
HasPrefix(ref, prefix) ==
    Len(ref) >= Len(prefix) /\ SubSeq(ref, 1, Len(prefix)) = prefix

SetRef(rs, ref, oid) == [r \in DOMAIN rs \cup {ref} |-> IF r = ref THEN oid ELSE rs[r]]

\* The state the steps of a transaction act on.
World(rs, wts, fs) == [refs |-> rs, worktrees |-> wts, files |-> fs]

Ok(w) == [ok |-> TRUE, world |-> w, error |-> "none"]
Raise(w, message) == [ok |-> FALSE, world |-> w, error |-> message]

create_backup_refs_for_branches(w, txn_id, branch) ==
    IF HeadRef(branch) \notin DOMAIN w.refs THEN Raise(w, "branch does not exist")
    ELSE Ok([w EXCEPT !.refs = SetRef(w.refs, backup_ref_for_branch(txn_id, branch),
                                      w.refs[HeadRef(branch)])])

restore_branch_from_backup_ref(w, txn_id, branch) ==
    IF backup_ref_for_branch(txn_id, branch) \notin DOMAIN w.refs
    THEN Raise(w, "backup ref does not exist")
    ELSE Ok([w EXCEPT !.refs = SetRef(w.refs, HeadRef(branch),
                                      w.refs[backup_ref_for_branch(txn_id, branch)])])

set_branch_head(w, branch, oid) == Ok([w EXCEPT !.refs = SetRef(w.refs, HeadRef(branch), oid)])

\* git worktree add <path> <branch>: the branch must exist and the path be free
add_worktree(w, branch, path) ==
    IF HeadRef(branch) \notin DOMAIN w.refs \/ path \in w.worktrees
    THEN Raise(w, "failed to add worktree")
    ELSE Ok([w EXCEPT !.worktrees = w.worktrees \cup {path}])

\* git worktree remove --force <path>: the path must be a worktree
remove_worktree(w, path) ==
    IF path \notin w.worktrees THEN Raise(w, "failed to remove worktree")
    ELSE Ok([w EXCEPT !.worktrees = w.worktrees \ {path}])

remove_backup_refs_wrong_prefix(w, txn_id) ==
    LET prefix == <<"refs", "gitcuttle", txn_id>>
    IN  Ok([w EXCEPT !.refs = [r \in {x \in DOMAIN w.refs : ~HasPrefix(x, prefix)} |->
                                  w.refs[r]]])
\* git for-each-ref <prefix>, then git update-ref -d on each ref listed
remove_backup_refs(w, txn_id) ==
    LET prefix == BACKUP_REF_PREFIX \o <<txn_id>>
    IN  Ok([w EXCEPT !.refs = [r \in {x \in DOMAIN w.refs : ~HasPrefix(x, prefix)} |->
                                  w.refs[r]]])

ensure_repo_tracked(w) ==
    LET r == EnsureRepoTrackedWhole(w.files, "A", TxnTimestamp, 1)
    IN  IF r.ok THEN Ok([w EXCEPT !.files = r.fs])
        ELSE Raise([w EXCEPT !.files = r.fs], "metadata error")

write_metadata(w, m) ==
    LET r == WriteWhole(w.files, m)
    IN  IF r.ok THEN Ok([w EXCEPT !.files = r.fs]) ELSE Raise(w, "metadata error")

\* ----------------------------------------------------------- transaction

\* The steps a transaction is built from: the repository steps of the
\* rollback tests, and "step", a caller's callback whose apply and rollback
\* each either return or raise.
RepoStepKinds == {"backup-refs", "update-branch-ref", "create-worktree", "write-metadata"}
StepKinds == RepoStepKinds \cup {"step"}

IndexToken == <<"1", "2", "3", "4", "5", "6", "7", "8", "9">>

\* TransactionStep.name: the callbacks are told apart by their position
StepName(kind, i) == IF kind = "step" THEN <<"step-", IndexToken[i]>> ELSE S(kind)

\* TransactionStep.recovery_commands: the repository steps that move a ref or
\* a worktree name the commands that undo them; of the callbacks, some name
\* a command twice, some name the commands of another step in another
\* order, and every third names none
RecoveryCommandsOf(kind, i) ==
    CASE kind = "update-branch-ref" -> <<S("git branch -f"), S("git worktree prune")>>
      [] kind = "create-worktree" -> <<S("git worktree prune"), S("git worktree remove")>>
      [] kind = "step" /\ i % 3 = 0 -> << >>
      [] kind = "step" /\ i % 2 = 1 ->
            <<S("git worktree prune"), S("git status"), S("git worktree prune")>>
      [] kind = "step" /\ i % 2 = 0 -> <<S("git status"), S("git branch -f")>>
      [] OTHER -> << >>

TransactionStep(kind, i) ==
    [name |-> StepName(kind, i), kind |-> kind,
     recovery_commands |-> RecoveryCommandsOf(kind, i)]

\* step.apply(): the outcomes it can have in world w
ApplyOutcomes(step, w) ==
    CASE step.kind = "backup-refs" -> {create_backup_refs_for_branches(w, TxnId, Branch)}
      [] step.kind = "update-branch-ref" -> {set_branch_head(w, Branch, UpdatedOid)}
      [] step.kind = "create-worktree" -> {add_worktree(w, Branch, WorktreePath)}
      [] step.kind = "write-metadata" -> {ensure_repo_tracked(w)}
      [] step.kind = "step" -> {Ok(w), Raise(w, "apply failed")}

\* step.rollback(): the outcomes it can have in world w
RollbackOutcomes(step, w, original) ==
    CASE step.kind = "backup-refs" -> {remove_backup_refs(w, TxnId)}
      [] step.kind = "update-branch-ref" -> {restore_branch_from_backup_ref(w, TxnId, Branch)}
      [] step.kind = "create-worktree" -> {remove_worktree(w, WorktreePath)}
      [] step.kind = "write-metadata" -> {write_metadata(w, original)}
      [] step.kind = "step" -> {Ok(w), Raise(w, "rollback failed")}

RECURSIVE Reverse(_)
Reverse(s) == IF s = << >> THEN << >> ELSE Reverse(Tail(s)) \o <<s[1]>>

RollbackOrderForward(completed) == completed
\* reversed(completed_steps)
RollbackOrder(completed) == Reverse(completed)

CompletedAlways(completed, i, ok) == Append(completed, i)
\* completed_steps.append(step), reached only when apply returned
CompletedAfterApply(completed, i, ok) == IF ok THEN Append(completed, i) ELSE completed

RaisedErrorAlwaysExecution(txn_id, step, cause, failures, rolled_back) ==
    [type |-> "TransactionExecutionError", txn_id |-> txn_id,
     failed_step_name |-> step.name, cause |-> cause,
     rollback_failures |-> << >>, rolled_back_steps |-> rolled_back]
\* the error run() raises once the rollbacks are done
RaisedError(txn_id, step, cause, failures, rolled_back) ==
    [type |-> IF failures # << >> THEN "TransactionRollbackError"
              ELSE "TransactionExecutionError",
     txn_id |-> txn_id, failed_step_name |-> step.name, cause |-> cause,
     rollback_failures |-> failures, rolled_back_steps |-> rolled_back]

NoError == [type |-> "none"]

\* An entry of the log of invocations: step.apply() or step.rollback() of the
\* step at `index` returned, or raised `error`.
Call(op, index, out) == [op |-> op, step |-> index, returned |-> out.ok, error |-> out.error]

\* the exception an apply raised
OperationError(index, message) ==
    [raised_by |-> <<"apply", IndexToken[index]>>, message |-> message]

\* Transaction.add_step, before run(): each repository step is added at most once
AddStep(kind) ==
    /\ pc = "building"
    /\ Len(steps) < MaxSteps
    /\ kind \in RepoStepKinds => \A i \in DOMAIN steps : steps[i].kind # kind
    /\ steps' = Append(steps, TransactionStep(kind, Len(steps) + 1))
    /\ UNCHANGED <<pc, cursor, completed_steps, to_roll_back, rollback_failures,
                   rolled_back_step_names, operation_error, raised, calls,
                   gitVars, files>>
    /\ UNCHANGED <<procVars, rtVars, cacheVars, cmdVars>>

\* run() is called
StartRun ==
    /\ pc = "building"
    /\ pc' = "applying"
    /\ UNCHANGED <<steps, cursor, completed_steps, to_roll_back, rollback_failures,
                   rolled_back_step_names, operation_error, raised, calls,
                   gitVars, files>>
    /\ UNCHANGED <<procVars, rtVars, cacheVars, cmdVars>>

\* one turn of `for step in self._steps`: step.apply() returns or raises
ApplyStep ==
    /\ pc = "applying"
    /\ cursor <= Len(steps)
    /\ \E out \in ApplyOutcomes(steps[cursor], World(refs, worktrees, files)) :
          /\ refs' = out.world.refs
          /\ worktrees' = out.world.worktrees
          /\ files' = out.world.files
          /\ calls' = Append(calls, Call("apply", cursor, out))
          /\ completed_steps' = CompletedAfterApply(completed_steps, cursor, out.ok)
          /\ IF out.ok
             THEN /\ cursor' = cursor + 1
                  /\ UNCHANGED <<pc, to_roll_back, operation_error>>
             ELSE /\ pc' = "rolling_back"
                  /\ to_roll_back' = RollbackOrder(completed_steps')
                  /\ operation_error' = OperationError(cursor, out.error)
                  /\ UNCHANGED cursor
    /\ UNCHANGED <<steps, rollback_failures, rolled_back_step_names, raised,
                   original_refs, original_metadata>>
    /\ UNCHANGED <<procVars, rtVars, cacheVars, cmdVars>>

\* the loop ends: run() returns
Return ==
    /\ pc = "applying"
    /\ cursor > Len(steps)
    /\ pc' = "returned"
    /\ UNCHANGED <<steps, cursor, completed_steps, to_roll_back, rollback_failures,
                   rolled_back_step_names, operation_error, raised, calls,
                   gitVars, files>>
    /\ UNCHANGED <<procVars, rtVars, cacheVars, cmdVars>>

\* RollbackFailure(step_name, error, recovery_commands) of a step whose
\* rollback raised
RollbackFailure(step, error) ==
    [step_name |-> step.name, error |-> error, recovery_commands |-> step.recovery_commands]

RemainingAfterStopsOnFailure(remaining, ok) == IF ok THEN Tail(remaining) ELSE << >>
\* the loop over reversed(completed_steps) goes on to the next step whether
\* the rollback returned or raised
RemainingAfter(remaining, ok) == Tail(remaining)

\* one turn of `for completed_step in reversed(completed_steps)`
RollbackStep ==
    /\ pc = "rolling_back"
    /\ to_roll_back # << >>
    /\ LET i == Head(to_roll_back)
       IN  \E out \in RollbackOutcomes(steps[i], World(refs, worktrees, files),
                                       original_metadata) :
              /\ refs' = out.world.refs
              /\ worktrees' = out.world.worktrees
              /\ files' = out.world.files
              /\ calls' = Append(calls, Call("rollback", i, out))
              /\ IF out.ok
                 THEN /\ rolled_back_step_names' =
                            Append(rolled_back_step_names, steps[i].name)
                      /\ UNCHANGED rollback_failures
                 ELSE /\ rollback_failures' =
                            Append(rollback_failures, RollbackFailure(steps[i], out.error))
                      /\ UNCHANGED rolled_back_step_names
              /\ to_roll_back' = RemainingAfter(to_roll_back, out.ok)
    /\ UNCHANGED <<steps, pc, cursor, completed_steps, operation_error, raised,
                   original_refs, original_metadata>>
    /\ UNCHANGED <<procVars, rtVars, cacheVars, cmdVars>>

\* the rollbacks are done: run() raises
RaiseTransactionError ==
    /\ pc = "rolling_back"
    /\ to_roll_back = << >>
    /\ raised' = RaisedError(TxnId, steps[cursor], operation_error,
                             rollback_failures, rolled_back_step_names)
    /\ pc' = "raised"
    /\ UNCHANGED <<steps, cursor, completed_steps, to_roll_back, rollback_failures,
                   rolled_back_step_names, operation_error, calls, gitVars, files>>
    /\ UNCHANGED <<procVars, rtVars, cacheVars, cmdVars>>

\* TransactionRollbackError.recovery_commands()
RECURSIVE RecoveryCommandsFrom(_, _, _, _)
RecoveryCommandsFrom(failures, f, c, commands) ==
    IF f > Len(failures) THEN commands
    ELSE IF c > Len(failures[f].recovery_commands)
    THEN RecoveryCommandsFrom(failures, f + 1, 1, commands)
    ELSE RecoveryCommandsFrom(
             failures, f, c + 1,
             IF \E k \in DOMAIN commands : commands[k] = failures[f].recovery_commands[c]
             THEN commands
             ELSE Append(commands, failures[f].recovery_commands[c]))

RecoveryCommandsOfLastFailure(error) ==
    RecoveryCommandsFrom(error.rollback_failures, Len(error.rollback_failures), 1, << >>)
RecoveryCommands(error) == RecoveryCommandsFrom(error.rollback_failures, 1, 1, << >>)

\* separator.join(texts)
RECURSIVE StrJoin(_, _)
StrJoin(separator, texts) ==
    IF texts = << >> THEN << >>
    ELSE IF Len(texts) = 1 THEN texts[1]
    ELSE texts[1] \o <<separator>> \o StrJoin(separator, Tail(texts))

\* TransactionRollbackError.format_partial_state(): the text, str(cause) and
\* str(failure.error) being the messages of the exceptions
FormatPartialState(error) ==
    LET rolled_back == IF error.rolled_back_steps # << >>
                       THEN StrJoin(", ", error.rolled_back_steps) ELSE <<"(none)">>
        recovery_commands == RecoveryCommands(error)
        lines ==
            << <<"transaction id: ", error.txn_id>>,
               <<"failed step: ">> \o error.failed_step_name,
               <<"operation error: ", error.cause.message>>,
               <<"rolled back steps: ">> \o rolled_back,
               <<"rollback failures:">> >>
            \o [f \in DOMAIN error.rollback_failures |->
                   <<"- ">> \o error.rollback_failures[f].step_name
                       \o <<": ", error.rollback_failures[f].error>>]
            \o (IF recovery_commands # << >>
                THEN << <<"deterministic recovery commands:">> >>
                     \o [c \in DOMAIN recovery_commands |-> <<"- ">> \o recovery_commands[c]]
                ELSE << <<"deterministic recovery commands: (none provided)">> >>)
    IN  StrJoin("\n", lines)

\* the caller that catches the TransactionRollbackError reads its recovery
\* commands and its partial state
ReportPartialState ==
    /\ pc = "raised"
    /\ raised.type = "TransactionRollbackError"
    /\ cmd.name = "none"
    /\ cmd' = [name |-> "format_partial_state", status |-> "returned",
               recovery_commands |-> RecoveryCommands(raised),
               text |-> FormatPartialState(raised)]
    /\ UNCHANGED <<txnVars, gitVars, files, procVars, rtVars, cacheVars, dirty, current,
                   commands_left>>

\* The metadata files a transaction can start from: none, or a valid one.
OtherRepoMetadata == TrackedMetadata(EmptyMetadata, "C", <<"2026-03-02T00:00:00", "+00:00">>)
StartFiles ==
    { << >>,
      Put(<< >>, MetaName, JsonDumps(SerializeWorkspacesMetadata(EmptyMetadata))),
      Put(<< >>, MetaName, JsonDumps(SerializeWorkspacesMetadata(OtherRepoMetadata))) }

\* The refs a transaction can start from: the branch may be missing, and
\* another transaction may have left its backup ref.
StartRefs ==
    { << >>,
      SetRef(<< >>, HeadRef(Branch), OriginalOid),
      SetRef(SetRef(<< >>, HeadRef(Branch), OriginalOid),
             backup_ref_for_branch(OtherTxnId, Branch), UpdatedOid) }

\* The processes of the metadata store, and their state before their command.
Procs == {"p1", "p2"}

NoText == PartialText(JNull, 0)

\* a file's text if the file exists: << >> or <<text>>
TextAt(fs, name) == IF Exists(fs, name) THEN <<fs[name]>> ELSE << >>

IdleLocal ==
    [pc |-> "idle", op |-> "none", cwd |-> "A", arg |-> EmptyMetadata,
     raw_text |-> NoText, doc |-> JNull, read_value |-> EmptyMetadata, read_ret |-> "done",
     aw_path |-> MetaName, aw_content |-> NoText, aw_temp_path |-> << >>,
     aw_ret |-> "done", aw_before |-> << >>, before |-> << >>, wrote |-> << >>,
     baks |-> {}]

NoResult ==
    [status |-> "none", op |-> "none", value |-> EmptyMetadata, error |-> "none",
     read_value |-> EmptyMetadata, before |-> << >>, wrote |-> << >>, baks |-> {}]

ProcsIdle ==
    /\ proc = [p \in Procs |-> IdleLocal]
    /\ result = [p \in Procs |-> NoResult]
    /\ started = 0
    /\ faults = 0

RoundTripIdle ==
    /\ rt_pc = "idle"
    /\ rt_value = EmptyMetadata
    /\ rt_read = EmptyMetadata

\* statuses_for_repo has not been called
NoCacheCall ==
    [key |-> << >>, now |-> 0, outcome |-> "none", returned |-> 0,
     entries_before |-> << >>, calls_before |-> 0]

\* RemoteStatusCache.__post_init__
CacheIdle ==
    /\ ttl_seconds = 0
    /\ entries = << >>
    /\ resolver_calls = 0
    /\ cache_last = NoCacheCall

\* no command has run
NoCommand == [name |-> "none", status |-> "none"]

CmdIdle ==
    /\ dirty = {}
    /\ current = None
    /\ cmd = NoCommand
    /\ commands_left = 0

TxnIdle ==
    /\ steps = << >>
    /\ pc = "building"
    /\ cursor = 1
    /\ completed_steps = << >>
    /\ to_roll_back = << >>
    /\ rollback_failures = << >>
    /\ rolled_back_step_names = << >>
    /\ operation_error = NoError
    /\ raised = NoError
    /\ calls = << >>
    /\ worktrees = {}

TxnInit ==
    /\ TxnIdle
    /\ refs \in StartRefs
    /\ original_refs = refs
    /\ files \in StartFiles
    /\ original_metadata = ReadWhole(files, 1).value
    /\ ProcsIdle
    /\ RoundTripIdle
    /\ CacheIdle
    /\ CmdIdle

TxnNext ==
    \/ \E kind \in StepKinds : AddStep(kind)
    \/ StartRun
    \/ ApplyStep
    \/ Return
    \/ RollbackStep
    \/ RaiseTransactionError
    \/ ReportPartialState

TxnSpec == TxnInit /\ [][TxnNext]_vars

\* ------------------------------------------------ claims: transactions

\* the positions of the log that hold an invocation of `op`
CallsOf(op) == {j \in DOMAIN calls : calls[j].op = op}
\* the position of the apply that raised, if one did
FailedApplies == {j \in CallsOf("apply") : ~calls[j].returned}

RECURSIVE NamesOfReturned(_)
\* the names of the steps whose logged rollback returned, in log order
NamesOfReturned(log) ==
    IF log = << >> THEN << >>
    ELSE (IF log[1].op = "rollback" /\ log[1].returned
          THEN <<steps[log[1].step].name>> ELSE << >>) \o NamesOfReturned(Tail(log))

\* C1: run applies the steps in insertion order; once the apply of step k has
\* raised and run has raised, the log is apply 1..k followed by rollback
\* k-1, k-2, .., 1 and nothing else, and the error's rolled_back_steps are
\* the names of the steps whose rollback returned, in that order.
C1_RollbackInReverseOrder ==
    /\ \A j \in CallsOf("apply") : calls[j].step = j
    /\ pc = "raised" =>
          LET k == Cardinality(CallsOf("apply"))
          IN  /\ Len(calls) = 2 * k - 1
              /\ \A j \in (k + 1)..(2 * k - 1) :
                    calls[j].op = "rollback" /\ calls[j].step = 2 * k - j
              /\ raised.rolled_back_steps = NamesOfReturned(calls)

\* C1 witness: the fourth step's apply raised; of the three rollbacks some
\* returned and some raised.
C1_Witness ==
    /\ pc = "raised"
    /\ cursor = 4
    /\ raised.rolled_back_steps # << >>
    /\ raised.rollback_failures # << >>

\* C2: no step's apply or rollback is invoked twice; after an apply raised no
\* later apply is invoked and the failing step is never rolled back; run does
\* not return: it goes on (to the next rollback or the raise) until it has
\* raised an error carrying the exception the apply raised.
C2_NoRetryNoSwallow ==
    /\ \A i, j \in DOMAIN calls :
          (calls[i].op = calls[j].op /\ calls[i].step = calls[j].step) => i = j
    /\ \A f \in FailedApplies :
          /\ \A j \in CallsOf("apply") : j <= f
          /\ \A j \in CallsOf("rollback") : calls[j].step # calls[f].step
          /\ pc \in {"rolling_back", "raised"}
          /\ pc = "rolling_back" => ENABLED (RollbackStep \/ RaiseTransactionError)
          /\ pc = "raised" =>
                raised.cause = OperationError(calls[f].step, calls[f].error)

\* C2 witness: an apply raised after two steps completed, and run has raised.
C2_Witness ==
    /\ pc = "raised"
    /\ FailedApplies # {}
    /\ Cardinality(CallsOf("rollback")) = 2

\* C3: the error run raises is a TransactionExecutionError exactly when every
\* rollback it invoked returned, a TransactionRollbackError exactly when one
\* raised; it carries the transaction id, the failing step's name and the
\* exception the apply raised.
C3_ErrorTypeByRollbackOutcome ==
    pc = "raised" =>
        /\ raised.type \in {"TransactionExecutionError", "TransactionRollbackError"}
        /\ raised.type = "TransactionExecutionError"
              <=> \A j \in CallsOf("rollback") : calls[j].returned
        /\ raised.type = "TransactionRollbackError"
              <=> \E j \in CallsOf("rollback") : ~calls[j].returned
        /\ raised.txn_id = TxnId
        /\ \A f \in FailedApplies :
              /\ raised.failed_step_name = steps[calls[f].step].name
              /\ raised.cause = OperationError(calls[f].step, calls[f].error)

\* C3 witness: a TransactionRollbackError after one rollback returned and one
\* raised.
C3_Witness ==
    /\ pc = "raised"
    /\ raised.type = "TransactionRollbackError"
    /\ raised.rolled_back_steps # << >>

\* The transaction of the rollback test: back up the branch, move it, add its
\* worktree, track the repository, then a step whose apply raises.
IsRollbackScenario ==
    /\ Len(steps) = 5
    /\ [i \in 1..5 |-> steps[i].kind] =
          <<"backup-refs", "update-branch-ref", "create-worktree", "write-metadata", "step">>
    /\ HeadRef(Branch) \in DOMAIN original_refs

TxnRefs(rs, txn_id) == {r \in DOMAIN rs : HasPrefix(r, BACKUP_REF_PREFIX \o <<txn_id>>)}

\* C4: when the last step of that transaction raises, run raises a
\* TransactionExecutionError and leaves the branch at its original OID, no
\* worktree at the path, the metadata file reading back as before and no ref
\* of the transaction; the branch was restored before the backup ref went.
C4_ScenarioRestored ==
    (IsRollbackScenario /\ pc = "raised" /\ cursor = 5) =>
        /\ raised.type = "TransactionExecutionError"
        /\ HeadRef(Branch) \in DOMAIN refs
        /\ refs[HeadRef(Branch)] = original_refs[HeadRef(Branch)]
        /\ WorktreePath \notin worktrees
        /\ ReadWhole(files, 1).ok
        /\ ReadWhole(files, 1).value = original_metadata
        /\ TxnRefs(refs, TxnId) = {}
        /\ \E i, j \in CallsOf("rollback") :
              i < j /\ calls[i].step = 2 /\ calls[j].step = 1

\* C4 witness: the scenario has run to its error, from a state with another
\* repository tracked.
C4_Witness ==
    /\ IsRollbackScenario
    /\ pc = "raised"
    /\ cursor = 5
    /\ original_metadata = OtherRepoMetadata

\* C5: once run has returned, a transaction that created backup refs has none
\* left under its namespace.
C5_BackupRefsPurgedOnSuccess ==
    (pc = "returned" /\ \E i \in DOMAIN steps : steps[i].kind = "backup-refs") =>
        TxnRefs(refs, TxnId) = {}

\* --------------------------------------------- metadata store, by steps

\* The commands of the processes.  A process is one invocation of the
\* program: it runs one command, beside or after the command of the other.
\* A step is one call that reads or changes the directory, taken together
\* with the local computation and the calls without effect on the directory
\* (fsync) that follow it.  Any call of _atomic_write_text may fail with an
\* OSError, MaxFaults times in all.

\* the repository each process works in, and the time it stamps
ProcCwd(p) == IF p = "p1" THEN "A" ELSE "B"
EnsureTimestamp == <<"2026-03-02T00:00:00", "Z">>

TrackedA == TrackedMetadata(EmptyMetadata, "A", <<"2026-03-01T00:00:00", "+00:00">>)

\* the values write() is called with
WriteValues == {TrackedA}

\* A document of schema version 0, as an older release left it.
Version0Doc == JObj([SerializeWorkspacesMetadata(OtherRepoMetadata).v EXCEPT !.version = JInt(0)])

\* Documents read() rejects: one of a schema version of a later release, one
\* of this version whose "repos" is not an object, and one of version 0
\* whose "repos" is not an object.
NewerVersionDoc ==
    JObj([SerializeWorkspacesMetadata(OtherRepoMetadata).v EXCEPT
             !.version = JInt(SCHEMA_VERSION + 1)])
InvalidDoc == JObj([SerializeWorkspacesMetadata(OtherRepoMetadata).v EXCEPT !.repos = JNull])
InvalidVersion0Doc == JObj([Version0Doc.v EXCEPT !.repos = JNull])

\* The directories the processes can start from.
MetaStartFiles ==
    { << >>,
      Put(<< >>, MetaName, JsonDumps(SerializeWorkspacesMetadata(OtherRepoMetadata))),
      Put(<< >>, MetaName, JsonDumps(Version0Doc)),
      Put(<< >>, MetaName, JsonDumps(NewerVersionDoc)),
      Put(<< >>, MetaName, JsonDumps(InvalidDoc)),
      Put(<< >>, MetaName, JsonDumps(InvalidVersion0Doc)),
      Put(Put(<< >>, MetaName, JsonDumps(Version0Doc)),
          BakName(Timestamps[1]), JsonDumps(SerializeWorkspacesMetadata(EmptyMetadata))) }

\* the second the clock shows when a backup is named, as an index of Timestamps
ClockTicks == {1}

TempPathInPlace(path, id) == path
\* NamedTemporaryFile(dir=parent, prefix="." + name + ".", suffix=".tmp")
TempPath(path, id) ==
    IF path = MetaName THEN TmpName(id) ELSE BakTmpName(path[2], id)

\* the command of p ends: it returned `value`, or raised `error`
Finish(p, l, status, value, error) ==
    /\ result' = [result EXCEPT ![p] =
                     [status |-> status, op |-> l.op, value |-> value, error |-> error,
                      read_value |-> l.read_value, before |-> l.before,
                      wrote |-> l.wrote, baks |-> l.baks]]
    /\ proc' = [proc EXCEPT ![p] = IdleLocal]

\* _atomic_write_text(path, content), entered with the directory fs: the temp
\* file is created, empty; ret says what follows the write
CreateTemp(p, l, fs, path, content, ret) ==
    /\ files' = Put(fs, TempPath(path, p), PartialText(content.doc, 0))
    /\ proc' = [proc EXCEPT ![p] =
                   [l EXCEPT !.pc = "aw_write", !.aw_path = path, !.aw_content = content,
                             !.aw_temp_path = <<TempPath(path, p)>>, !.aw_ret = ret,
                             !.aw_before = TextAt(fs, MetaName)]]
    /\ UNCHANGED <<result, faults>>

FaultKeepsTemp(p, l, fs, call) ==
    /\ faults < MaxFaults
    /\ faults' = faults + 1
    /\ files' = fs
    /\ Finish(p, l, "raised", EmptyMetadata, call)

\* an OSError in _atomic_write_text, the directory being fs: the except clause
\* unlinks the temp file if temp_path was set, and the error goes to the caller
Fault(p, l, fs, call) ==
    /\ faults < MaxFaults
    /\ faults' = faults + 1
    /\ files' = IF l.aw_temp_path = << >> THEN fs ELSE Unlink(fs, l.aw_temp_path[1])
    /\ Finish(p, l, "raised", EmptyMetadata, call)

\* _atomic_write_text is entered: NamedTemporaryFile creates the file or fails
BeginWrite(p, l, path, content, ret) ==
    \/ CreateTemp(p, l, files, path, content, ret)
    \/ Fault(p, [l EXCEPT !.aw_temp_path = << >>], files, "create")

\* MetadataManager.write(m)
WriteFrom(p, l, m) ==
    IF ~ValidateWorkspacesMetadata(m)
    THEN /\ Finish(p, l, "raised", EmptyMetadata, "ValueError")
         /\ UNCHANGED <<files, faults>>
    ELSE BeginWrite(p, l, MetaName, JsonDumps(SerializeWorkspacesMetadata(m)), "done")

\* read() has its value, or raises: the caller goes on
ReadFinish(p, l, ok, value) ==
    IF ~ok
    THEN /\ Finish(p, l, "raised", EmptyMetadata, "ValueError")
         /\ UNCHANGED <<files, faults>>
    ELSE IF l.read_ret = "done"
    THEN /\ Finish(p, l, "returned", value, "none")
         /\ UNCHANGED <<files, faults>>
    ELSE WriteFrom(p, [l EXCEPT !.read_value = value],
                   TrackedMetadata(value, l.cwd, EnsureTimestamp))

\* if not self.path.exists(): return the empty value
ReadExists(p, l) ==
    IF Exists(files, MetaName)
    THEN /\ proc' = [proc EXCEPT ![p] = [l EXCEPT !.pc = "read_text"]]
         /\ UNCHANGED <<result, files, faults>>
    ELSE ReadFinish(p, l, TRUE, EmptyMetadata)

\* a process calls read()
StartRead(p) ==
    /\ proc[p].pc = "idle"
    /\ result[p].status = "none"
    /\ started' = started + 1
    /\ ReadExists(p, [IdleLocal EXCEPT !.op = "read", !.before = TextAt(files, MetaName),
                         !.baks = {n \in DOMAIN files : IsBak(n)}])
    /\ UNCHANGED <<txnVars, gitVars, rtVars, cacheVars, cmdVars>>

\* a process calls write(m)
StartWrite(p, m) ==
    /\ proc[p].pc = "idle"
    /\ result[p].status = "none"
    /\ started' = started + 1
    /\ WriteFrom(p, [IdleLocal EXCEPT !.op = "write", !.arg = m,
                        !.before = TextAt(files, MetaName),
                         !.baks = {n \in DOMAIN files : IsBak(n)}], m)
    /\ UNCHANGED <<txnVars, gitVars, rtVars, cacheVars, cmdVars>>

\* a process calls ensure_repo_tracked(cwd), which begins with read()
StartEnsureRepoTracked(p) ==
    /\ proc[p].pc = "idle"
    /\ result[p].status = "none"
    /\ started' = started + 1
    /\ ReadExists(p, [IdleLocal EXCEPT !.op = "ensure_repo_tracked", !.cwd = ProcCwd(p),
                         !.read_ret = "ensure", !.before = TextAt(files, MetaName),
                         !.baks = {n \in DOMAIN files : IsBak(n)}])
    /\ UNCHANGED <<txnVars, gitVars, rtVars, cacheVars, cmdVars>>

\* raw_text = self.path.read_text(); json.loads; _migrate_workspaces_metadata;
\* with nothing to migrate, parse and validate
ReadText(p) ==
    /\ proc[p].pc = "read_text"
    /\ IF ~Exists(files, MetaName)
       THEN /\ Finish(p, proc[p], "raised", EmptyMetadata, "FileNotFoundError")
            /\ UNCHANGED <<files, faults>>
       ELSE LET raw == files[MetaName]
                d == Decode(raw)
                l == [proc[p] EXCEPT !.raw_text = raw, !.doc = d.doc]
            IN  IF d.fails_before_rewrite
                THEN /\ Finish(p, l, "raised", EmptyMetadata, "ValueError")
                     /\ UNCHANGED <<files, faults>>
                ELSE IF d.migrated
                THEN /\ proc' = [proc EXCEPT ![p] = [l EXCEPT !.pc = "backup_name"]]
                     /\ UNCHANGED <<result, files, faults>>
                ELSE ReadFinish(p, l, d.ok, d.value)
    /\ UNCHANGED <<started, txnVars, gitVars, rtVars, cacheVars, cmdVars>>

\* _write_migration_backup: the first name from the clock on that does not
\* exist is taken
BackupName(p) ==
    /\ proc[p].pc = "backup_name"
    /\ \E now \in ClockTicks :
          proc' = [proc EXCEPT ![p] =
                      [proc[p] EXCEPT !.pc = "backup_write",
                          !.aw_path = BakName(Timestamps[FreeBackupIndex(files, now)])]]
    /\ UNCHANGED <<result, files, faults, started, txnVars, gitVars, rtVars, cacheVars, cmdVars>>

\* _atomic_write_text(backup_path, file_content) is entered
BackupWrite(p) ==
    /\ proc[p].pc = "backup_write"
    /\ BeginWrite(p, proc[p], proc[p].aw_path, proc[p].raw_text, "after_backup")
    /\ UNCHANGED <<started, txnVars, gitVars, rtVars, cacheVars, cmdVars>>

\* temp_file.write(content), temp_file.flush(): the next chunk reaches the
\* file; after the last one, os.fsync
AwWrite(p) ==
    /\ proc[p].pc = "aw_write"
    /\ LET l == proc[p]
           temp == l.aw_temp_path[1]
       IN  \/ /\ Exists(files, temp)
              /\ files' = Put(files, temp,
                              PartialText(l.aw_content.doc, files[temp].written + 1))
              /\ \/ /\ files'[temp].written < Chunks
                    /\ UNCHANGED <<proc, result, faults>>
                 \/ /\ files'[temp].written = Chunks
                    /\ proc' = [proc EXCEPT ![p].pc = "aw_replace"]
                    /\ UNCHANGED <<result, faults>>
           \/ Fault(p, l, files, "write")
           \/ /\ Exists(files, temp)
              /\ files[temp].written = Chunks - 1
              /\ Fault(p, l, Put(files, temp, l.aw_content), "fsync")
    /\ UNCHANGED <<started, txnVars, gitVars, rtVars, cacheVars, cmdVars>>

\* what follows _atomic_write_text in its caller
AfterWrite(p, l) ==
    CASE l.aw_ret = "done" ->
            /\ Finish(p, l, "returned", l.arg, "none")
            /\ UNCHANGED faults
      [] l.aw_ret = "after_backup" ->
            /\ proc' = [proc EXCEPT ![p] = [l EXCEPT !.pc = "rewrite"]]
            /\ UNCHANGED <<result, faults>>
      [] l.aw_ret = "after_rewrite" ->
            /\ proc' = [proc EXCEPT ![p] = [l EXCEPT !.pc = "read_parse"]]
            /\ UNCHANGED <<result, faults>>

\* os.replace(temp_path, path), then _fsync_directory(parent)
AwReplace(p) ==
    /\ proc[p].pc = "aw_replace"
    /\ LET l == proc[p]
           replaced == Replace(files, l.aw_temp_path[1], l.aw_path)
           after == IF l.aw_path = MetaName THEN [l EXCEPT !.wrote = <<l.aw_content>>]
                    ELSE l
       IN  \/ /\ Exists(files, l.aw_temp_path[1])
              /\ files' = replaced
              /\ AfterWrite(p, after)
           \/ Fault(p, l, files, "replace")
           \/ /\ Exists(files, l.aw_temp_path[1])
              /\ Fault(p, after, replaced, "fsync_dir")
    /\ UNCHANGED <<started, txnVars, gitVars, rtVars, cacheVars, cmdVars>>

RewriteSkipped(p) ==
    /\ proc[p].pc = "rewrite"
    /\ proc' = [proc EXCEPT ![p].pc = "read_parse"]
    /\ UNCHANGED <<result, files, faults, started, txnVars, gitVars, rtVars, cacheVars, cmdVars>>

\* read(), after the backup: _atomic_write_text(self.path, json.dumps(loaded))
Rewrite(p) ==
    /\ proc[p].pc = "rewrite"
    /\ BeginWrite(p, proc[p], MetaName, JsonDumps(proc[p].doc), "after_rewrite")
    /\ UNCHANGED <<started, txnVars, gitVars, rtVars, cacheVars, cmdVars>>

\* read(), after the rewrite: parse and validate the migrated document
ReadParse(p) ==
    /\ proc[p].pc = "read_parse"
    /\ LET doc == proc[p].doc
           ok == ParseOk(doc) /\ ValidateWorkspacesMetadata(ParseWorkspacesMetadata(doc))
       IN  ReadFinish(p, proc[p], ok,
                      IF ok THEN ParseWorkspacesMetadata(doc) ELSE EmptyMetadata)
    /\ UNCHANGED <<started, txnVars, gitVars, rtVars, cacheVars, cmdVars>>

MetaInit ==
    /\ TxnIdle
    /\ refs = << >>
    /\ original_refs = << >>
    /\ original_metadata = EmptyMetadata
    /\ files \in MetaStartFiles
    /\ ProcsIdle
    /\ RoundTripIdle
    /\ CacheIdle
    /\ CmdIdle

MetaNext ==
    \/ \E p \in Procs : StartRead(p)
    \/ \E p \in Procs : \E m \in WriteValues : StartWrite(p, m)
    \/ \E p \in Procs : StartEnsureRepoTracked(p)
    \/ \E p \in Procs : ReadText(p)
    \/ \E p \in Procs : BackupName(p)
    \/ \E p \in Procs : BackupWrite(p)
    \/ \E p \in Procs : AwWrite(p)
    \/ \E p \in Procs : AwReplace(p)
    \/ \E p \in Procs : Rewrite(p)
    \/ \E p \in Procs : ReadParse(p)

MetaSpec == MetaInit /\ [][MetaNext]_vars

\* ------------------------------------------- claims on the metadata store

\* the calls of _atomic_write_text that can raise
AtomicWriteCalls == {"create", "write", "fsync", "replace", "fsync_dir"}

\* p ran write(m) alone, and the call `call` of its atomic write raised
WriteRaisedAt(p, call) ==
    /\ started = 1
    /\ result[p].op = "write"
    /\ result[p].error = call

\* the metadata file is as it was when the command of p began, and the
\* directory holds no temp file
PreservedSince(p) ==
    /\ TextAt(files, MetaName) = result[p].before
    /\ \A n \in DOMAIN files : ~IsTmp(n)

\* C6: when os.replace raises in write(m), write raises, the metadata file is
\* what it was before the call (or still missing), and no *.tmp file is left
\* in the directory.
C6_RenameFailurePreserves ==
    \A p \in Procs :
        WriteRaisedAt(p, "replace") =>
            /\ result[p].status = "raised"
            /\ proc[p].pc = "idle"
            /\ PreservedSince(p)

\* a write over an existing file has failed at the rename
C6_Witness ==
    \E p \in Procs :
        /\ WriteRaisedAt(p, "replace")
        /\ result[p].before # << >>
        /\ result[p].before # <<JsonDumps(SerializeWorkspacesMetadata(TrackedA))>>

\* C7: whichever call of the atomic write raises (creating or writing the temp
\* file, its fsync, the rename, the fsync of the directory), the temp file is
\* gone and the metadata file is what it was before the write.
C7_AnyStepFailurePreserves ==
    \A p \in Procs :
        (\E call \in AtomicWriteCalls : WriteRaisedAt(p, call)) =>
            /\ result[p].status = "raised"
            /\ PreservedSince(p)

\* the texts a command of q has put under the metadata file's name
WroteBy(q) == {<<t>> : t \in {result[q].wrote[i] : i \in DOMAIN result[q].wrote}
                          \cup {proc[q].wrote[i] : i \in DOMAIN proc[q].wrote}}

\* p takes the step in which read() reads the file
ReadsFile(p) ==
    /\ proc[p].pc = "read_text"
    /\ proc'[p] # proc[p]
    /\ Exists(files, MetaName)

\* C8: the text a read() obtains is always a whole document; with one other
\* command running, it is the text the file held when the read began or the
\* text that command has renamed into place.
C8_ReadersSeeCompleteSnapshot ==
    [][\A p \in Procs :
          ReadsFile(p) =>
              /\ files[MetaName].written = Chunks
              /\ started <= 2 =>
                    \/ <<files[MetaName]>> = proc[p].before
                    \/ \E q \in Procs \ {p} : <<files[MetaName]>> \in WroteBy(q)]_vars

\* a read that began on the old text has returned the new one, which another
\* process renamed into place meanwhile
C8_Witness ==
    \E p \in Procs : \E q \in Procs \ {p} :
        /\ started = 2
        /\ result[p].op = "read"
        /\ result[p].status = "returned"
        /\ result[p].before # << >>
        /\ result[q].wrote # << >>
        /\ result[q].wrote # result[p].before
        /\ <<JsonDumps(SerializeWorkspacesMetadata(result[p].value))>> = result[q].wrote

\* both processes have run ensure_repo_tracked, each for its repository, and
\* both calls have returned
BothTracked ==
    \A p \in Procs :
        /\ proc[p].pc = "idle"
        /\ result[p].op = "ensure_repo_tracked"
        /\ result[p].status = "returned"

\* the repositories the metadata file tracks (it is whole and valid)
TrackedKeys == DOMAIN Decode(files[MetaName]).value.repos

\* C9: after two ensure_repo_tracked calls for different repositories, run at
\* once without a lock, the file is a whole valid document that holds what
\* one of them wrote: the repositories that one read, and its own.
C9_UnlockedReadModifyWrite ==
    BothTracked =>
        /\ Exists(files, MetaName)
        /\ files[MetaName].written = Chunks
        /\ Decode(files[MetaName]).ok
        /\ \E p \in Procs :
              /\ <<files[MetaName]>> = result[p].wrote
              /\ TrackedKeys = DOMAIN result[p].read_value.repos \cup {RepoKey(ProcCwd(p))}

\* the lost update: both calls returned, and the file tracks the repository
\* of only one of them
C9_Witness ==
    /\ BothTracked
    /\ started = 2
    /\ \E p \in Procs : \E q \in Procs \ {p} :
          /\ RepoKey(ProcCwd(p)) \in TrackedKeys
          /\ RepoKey(ProcCwd(q)) \notin TrackedKeys

\* ------------------------------------------------- write, then read

\* The values write() is given and read() gives back: one repository with no
\* workspace, one workspace or two, valid or not.
RoundTripTimestamp == <<"2026-03-01T00:00:00", "Z">>

RoundTripWorkspace(branch, path, kind, parents, remote) ==
    [branch |-> S(branch), worktree_path |-> path, tracked_remote |-> remote,
     kind |-> S(kind), base_ref |-> S("main"), octopus_parents |-> parents,
     created_at |-> RoundTripTimestamp, updated_at |-> <<"2026-03-02T00:00:00">>]

RoundTripPaths ==
    { MkPath("/", <<"wt", "feature">>), MkPath("//", <<"wt", "feature">>),
      MkPath("", <<"wt", "feature">>) }

RoundTripParents ==
    { << >>, <<S("main")>>, <<S("main"), S("release")>>, <<S("release"), S("main")>>,
      <<S("main"), S("main")>> }

RoundTripRemotes == {None, Some(S("origin")), Some(S(""))}

RoundTripWorkspaces ==
    { RoundTripWorkspace("feature", path, kind, parents, remote) :
        path \in RoundTripPaths, kind \in {"standard", "octopus"},
        parents \in RoundTripParents, remote \in RoundTripRemotes }

\* the workspaces of the repository, by key
RoundTripWorkspaceMaps ==
    { << >> }
    \cup { [k \in {w.branch} |-> w] : w \in RoundTripWorkspaces }
    \cup { [k \in {S("other")} |-> w] : w \in RoundTripWorkspaces }
    \cup { [k \in {S("feature"), S("second")} |->
               RoundTripWorkspace(k[1], MkPath("/", <<"wt", path>>), "octopus",
                                  <<S("release"), S("main")>>, None)] :
             path \in {"feature", "second"} }
    \cup { [k \in {S("feature"), S("second")} |->
               RoundTripWorkspace(k[1], MkPath("/", <<"wt", k[1]>>), "standard",
                                  << >>, remote)] : remote \in RoundTripRemotes }

RoundTripValues ==
    { [version |-> version,
       repos |-> [k \in {PathStr(GitDirA)} |->
                     [git_dir |-> git_dir, repo_root |-> MkPath("/", <<"repos", "demo">>),
                      default_remote |-> default_remote,
                      tracked_at |-> RoundTripTimestamp, updated_at |-> RoundTripTimestamp,
                      workspaces |-> workspaces]]] :
        version \in {SCHEMA_VERSION, SCHEMA_VERSION + 1},
        git_dir \in {GitDirA, MkPath("/", <<"link", "demo", ".git">>)},
        default_remote \in {None, Some(S("origin"))},
        workspaces \in RoundTripWorkspaceMaps }
    \cup {EmptyMetadata}

\* write(rt_value)
RoundTripWrite ==
    /\ rt_pc = "idle"
    /\ LET r == WriteWhole(files, rt_value)
       IN  /\ files' = r.fs
           /\ rt_pc' = IF r.ok THEN "written" ELSE "rejected"
    /\ UNCHANGED <<rt_value, rt_read, txnVars, gitVars, procVars, cacheVars, cmdVars>>

\* read()
RoundTripRead ==
    /\ rt_pc = "written"
    /\ LET r == ReadWhole(files, 1)
       IN  /\ files' = r.fs
           /\ rt_pc' = IF r.ok THEN "read" ELSE "read_failed"
           /\ rt_read' = r.value
    /\ UNCHANGED <<rt_value, txnVars, gitVars, procVars, cacheVars, cmdVars>>

RoundTripInit ==
    /\ TxnIdle
    /\ refs = << >>
    /\ original_refs = << >>
    /\ original_metadata = EmptyMetadata
    /\ files \in {<< >>, Put(<< >>, MetaName, JsonDumps(Version0Doc))}
    /\ ProcsIdle
    /\ CacheIdle
    /\ CmdIdle
    /\ rt_pc = "idle"
    /\ rt_value \in RoundTripValues
    /\ rt_read = EmptyMetadata

RoundTripNext ==
    \/ RoundTripWrite
    \/ RoundTripRead

RoundTripSpec == RoundTripInit /\ [][RoundTripNext]_vars

\* C10: write(m) returns exactly for the valid values m, and the read() that
\* follows returns a value equal to m: the order of octopus_parents and the
\* remotes that are None included.
C10_WriteReadRoundTrip ==
    /\ rt_pc \in {"written", "read"} <=>
          (rt_pc # "idle" /\ ValidateWorkspacesMetadata(rt_value))
    /\ rt_pc # "read_failed"
    /\ rt_pc = "read" =>
          /\ rt_read = rt_value
          /\ files[MetaName] = JsonDumps(SerializeWorkspacesMetadata(rt_value))

\* an octopus workspace with its parents out of alphabetical order and no
\* remote, in a repository with no default remote, has been written and read
C10_Witness ==
    /\ rt_pc = "read"
    /\ \E k \in DOMAIN rt_value.repos :
          /\ rt_value.repos[k].default_remote = None
          /\ \E b \in DOMAIN rt_value.repos[k].workspaces :
                LET w == rt_value.repos[k].workspaces[b]
                IN  /\ w.kind = S("octopus")
                    /\ w.octopus_parents = <<S("release"), S("main")>>
                    /\ w.tracked_remote = None
                    /\ w.worktree_path.root = "//"

\* the workspaces of the value m
WorkspacesOf(m) ==
    UNION { { m.repos[k].workspaces[b] : b \in DOMAIN m.repos[k].workspaces } :
            k \in DOMAIN m.repos }

\* the entries of parents are pairwise distinct
AllDistinct(parents) ==
    \A i, j \in DOMAIN parents : parents[i] = parents[j] => i = j

\* C12: validation rejects a standard workspace with parents and an octopus
\* workspace without two parents that are pairwise distinct, so every value
\* write() has persisted, and every value read() has returned, keeps to this.
C12_KindInvariantsEnforced ==
    rt_pc \in {"written", "read"} =>
        \A w \in WorkspacesOf(rt_value) :
            /\ w.kind = S("standard") => w.octopus_parents = << >>
            /\ w.kind = S("octopus") =>
                  Len(w.octopus_parents) >= 2 /\ AllDistinct(w.octopus_parents)

\* p is in the migration of a read(): from the choice of the backup's name
\* to the return of the rewrite
Migrating(p) ==
    \/ proc[p].pc \in {"backup_name", "backup_write", "rewrite", "read_parse"}
    \/ /\ proc[p].pc \in {"aw_write", "aw_replace"}
       /\ proc[p].aw_ret \in {"after_backup", "after_rewrite"}

\* a backup in the directory holds `text`, whole
HasBackup(text) ==
    \E n \in DOMAIN files : IsBak(n) /\ files[n] = text /\ text.written = Chunks

\* the bytes read() found are in the metadata file or in a backup
OriginalKept(text) == TextAt(files, MetaName) = <<text>> \/ HasBackup(text)

\* p takes a step that renames its temp file to `name`
RenamesTo(p, name) ==
    /\ proc[p].pc = "aw_replace"
    /\ proc[p].aw_path = name
    /\ name \in DOMAIN files'
    /\ files'[name] = proc[p].aw_content
    /\ proc'[p] # proc[p]

\* C14: in a migrating read that runs alone, whatever fails and wherever it
\* stops, the bytes it read are whole in the metadata file or in a backup;
\* the backup is in place before the metadata file is replaced; and a backup
\* is only ever renamed to a name that did not exist, every backup that did
\* exist staying as it was.
C14_BackupBeforeOverwrite ==
    /\ [](started = 1 =>
            \A p \in Procs :
                /\ Migrating(p) => OriginalKept(proc[p].raw_text)
                /\ (result[p].op = "read" /\ result[p].before # << >>
                    /\ Decode(result[p].before[1]).migrated) =>
                       OriginalKept(result[p].before[1]))
    /\ [][started = 1 =>
            \A p \in Procs :
                /\ (Migrating(p) /\ RenamesTo(p, MetaName)) => HasBackup(proc[p].raw_text)
                /\ \A n \in DOMAIN files :
                      IsBak(n) => n \in DOMAIN files' /\ files'[n] = files[n]
                /\ \A n \in DOMAIN files' :
                      (IsBak(n) /\ RenamesTo(p, n)) => n \notin DOMAIN files]_vars

\* between the two writes of a migration: the backup is written, beside an
\* older backup whose name the clock gave first, and the metadata file still
\* holds the old document
C14_Witness ==
    \E p \in Procs :
        /\ started = 1
        /\ proc[p].pc = "rewrite"
        /\ Exists(files, BakName(Timestamps[1]))
        /\ files[BakName(Timestamps[1])] # proc[p].raw_text
        /\ Exists(files, BakName(Timestamps[2]))
        /\ files[BakName(Timestamps[2])] = proc[p].raw_text
        /\ files[MetaName] = proc[p].raw_text

\* the backups made since the command of p began
NewBackups(p) == {n \in DOMAIN files : IsBak(n)} \ result[p].baks

\* the read() of q began after the migration of p reached the file, and returned
LaterRead(q, p) ==
    /\ result[q].op = "read"
    /\ result[q].status = "returned"
    /\ result[q].before = result[p].wrote

\* the read() of p found a document of an older schema version and returned;
\* no command ran beside it, and none since but further calls of read()
MigratedAlone(p) ==
    /\ result[p].op = "read"
    /\ result[p].status = "returned"
    /\ result[p].before # << >>
    /\ Decode(result[p].before[1]).migrated
    /\ started <= 2
    /\ \A q \in Procs : proc[q].pc = "idle"
    /\ \A q \in Procs \ {p} : result[q].status = "none" \/ LaterRead(q, p)

\* C13: a read() of a file at a version below SCHEMA_VERSION returns a value
\* at SCHEMA_VERSION, leaves the file at SCHEMA_VERSION and leaves exactly one
\* new backup, which holds the original text; a later read() returns the same
\* value, rewrites nothing and makes no backup.
C13_MigrationOnRead ==
    \A p \in Procs :
        MigratedAlone(p) =>
            /\ result[p].value.version = SCHEMA_VERSION
            /\ Exists(files, MetaName)
            /\ Decode(files[MetaName]).ok
            /\ ~Decode(files[MetaName]).migrated
            /\ JGet(files[MetaName].doc, "version") = JInt(SCHEMA_VERSION)
            /\ Decode(files[MetaName]).value = result[p].value
            /\ Cardinality(NewBackups(p)) = 1
            /\ \A n \in NewBackups(p) : files[n] = result[p].before[1]
            /\ \A n \in DOMAIN files : ~IsTmp(n)
            /\ \A q \in Procs \ {p} :
                  result[q].status # "none" =>
                      /\ result[q].value = result[p].value
                      /\ result[q].wrote = << >>
                      /\ NewBackups(q) = {}

\* a version 0 file was migrated beside an older backup, and read again
C13_Witness ==
    \E p \in Procs : \E q \in Procs \ {p} :
        /\ MigratedAlone(p)
        /\ JGet(result[p].before[1].doc, "version") = JInt(0)
        /\ BakName(Timestamps[1]) \in result[p].baks
        /\ LaterRead(q, p)


\* ---------------------------------------------------------------------------
\* RemoteStatusCache (remote_status.py)
\* ---------------------------------------------------------------------------

\* the clock is injected: now() returns any value in 0..MaxTime
MaxTime == 4

\* the resolver is called at most this many times
MaxResolverCalls == 3

\* ttl_seconds of the caches under check
TtlValues == {0, 1, 2}

\* the repos whose statuses are asked for
CacheGitDirs == {GitDirA, GitDirB}

\* "now - fetched_at <= self.ttl_seconds"
IsFreshInclusive(now, fetched_at, ttl) == now - fetched_at <= ttl

\* "now - fetched_at < self.ttl_seconds"
IsFresh(now, fetched_at, ttl) == now - fetched_at < ttl

\* self._entries.get(cache_key)
CacheGet(es, cache_key) ==
    IF cache_key \in DOMAIN es THEN Some(es[cache_key]) ELSE None

\* self._entries[cache_key] = (now, statuses)
CachePut(es, cache_key, entry) ==
    [k \in DOMAIN es \cup {cache_key} |-> IF k = cache_key THEN entry ELSE es[k]]

\* statuses_for_repo(repo, resolver) with now() = now; the resolver is a
\* counting one, its n-th call returns n, or raises when raises is TRUE
StatusesForRepo(git_dir, now, raises) ==
    LET cache_key == PathStr(git_dir)
        cached == CacheGet(entries, cache_key)
        fresh == /\ cached # None
                 /\ IsFresh(now, cached.v.fetched_at, ttl_seconds)
        statuses == resolver_calls + 1
        call == [key |-> cache_key, now |-> now, outcome |-> "none",
                 returned |-> 0, entries_before |-> entries,
                 calls_before |-> resolver_calls]
    IN  /\ ttl_seconds \in TtlValues
        /\ IF fresh
           THEN /\ ~raises
                /\ cache_last' = [call EXCEPT !.outcome = "cached",
                                              !.returned = cached.v.statuses]
                /\ UNCHANGED <<entries, resolver_calls>>
           ELSE /\ resolver_calls < MaxResolverCalls
                /\ resolver_calls' = statuses
                /\ IF raises
                   THEN /\ cache_last' = [call EXCEPT !.outcome = "raised",
                                                      !.returned = 0]
                        /\ UNCHANGED entries
                   ELSE /\ entries' = CachePut(entries, cache_key,
                                [fetched_at |-> now, statuses |-> statuses])
                        /\ cache_last' = [call EXCEPT !.outcome = "returned",
                                                      !.returned = statuses]
        /\ UNCHANGED <<ttl_seconds, txnVars, gitVars, files, procVars, rtVars, cmdVars>>

CacheInit ==
    /\ TxnIdle
    /\ refs = << >>
    /\ original_refs = << >>
    /\ files = << >>
    /\ original_metadata = EmptyMetadata
    /\ ProcsIdle
    /\ RoundTripIdle
    /\ CmdIdle
    /\ ttl_seconds \in TtlValues
    /\ entries = << >>
    /\ resolver_calls = 0
    /\ cache_last = NoCacheCall

CacheNext ==
    \E git_dir \in CacheGitDirs, now \in 0..MaxTime, raises \in BOOLEAN :
        StatusesForRepo(git_dir, now, raises)

CacheSpec == CacheInit /\ [][CacheNext]_vars

\* the entry the last call found for its git_dir is within the TTL
LastCallWithinTtl ==
    /\ cache_last.key \in DOMAIN cache_last.entries_before
    /\ cache_last.now - cache_last.entries_before[cache_last.key].fetched_at
           < ttl_seconds

\* C15: statuses_for_repo calls the resolver on the first call for a git_dir
\* and on every call with now - fetched_at >= ttl_seconds; with
\* now - fetched_at < ttl_seconds it returns the stored result and the resolver
\* is not called. A recomputation stores the new result with the new fetch
\* time, and the entries of every other git_dir are left as they were.
C15_CacheTtl ==
    cache_last.outcome # "none" =>
        /\ LastCallWithinTtl =>
              /\ cache_last.outcome = "cached"
              /\ resolver_calls = cache_last.calls_before
              /\ cache_last.returned =
                     cache_last.entries_before[cache_last.key].statuses
              /\ entries = cache_last.entries_before
        /\ ~LastCallWithinTtl =>
              /\ cache_last.outcome \in {"returned", "raised"}
              /\ resolver_calls = cache_last.calls_before + 1
              /\ cache_last.outcome = "returned" =>
                    /\ cache_last.returned = resolver_calls
                    /\ cache_last.key \in DOMAIN entries
                    /\ entries[cache_last.key] =
                           [fetched_at |-> cache_last.now,
                            statuses |-> cache_last.returned]
        /\ \A k \in (DOMAIN entries \cup DOMAIN cache_last.entries_before)
                        \ {cache_last.key} :
              /\ k \in DOMAIN entries
              /\ k \in DOMAIN cache_last.entries_before
              /\ entries[k] = cache_last.entries_before[k]

\* an entry is recomputed when exactly ttl_seconds have passed, while the
\* other git_dir has an entry
C15_Witness ==
    /\ cache_last.outcome = "returned"
    /\ ttl_seconds > 0
    /\ cache_last.key \in DOMAIN cache_last.entries_before
    /\ cache_last.now - cache_last.entries_before[cache_last.key].fetched_at
           = ttl_seconds
    /\ entries[cache_last.key].statuses
           # cache_last.entries_before[cache_last.key].statuses
    /\ \E k \in DOMAIN entries : k # cache_last.key


\* ---------------------------------------------------------------------------
\* The commands: new.py, delete.py, prune.py
\* ---------------------------------------------------------------------------

\* commands run one after another from a fresh repository
MaxCommands == 2

\* the branches workspaces are made for, in the order sorted() gives them
WsBranches == <<"alpha", "beta">>

WsBranchSet == {WsBranches[i] : i \in DOMAIN WsBranches}

\* derive_workspace_path(git_dir of the main worktree, branch):
\* _workspace_root_dir() / repo_id / branch_dir
DeriveWorkspacePath(branch) ==
    MkPath("/", <<"data", "gitcuttle", "demo-1a2b3c4d", branch>>)

\* the repository and the metadata directory as one value
\* log: the mutations the running command has made so far, in order
RepoState(rs, wts, dy, cur, fs) ==
    [refs |-> rs, worktrees |-> wts, dirty |-> dy, current |-> cur, files |-> fs,
     log |-> << >>]

\* the repository after a mutation, which the log names
Logged(g, mutation) == [g EXCEPT !.log = Append(@, mutation)]

\* the mutations of git a command makes, and its write of the metadata file
GitMutations ==
    {"branch-create", "branch-delete", "worktree-add", "worktree-remove", "merge"}
MetadataWrite == "metadata-write"

\* the directories a command is run from: the main worktree ("A") and every
\* linked worktree (named by its branch)
Cwds(g) == {"A"} \cup {b \in WsBranchSet : DeriveWorkspacePath(b) \in g.worktrees}

\* git rev-parse --git-common-dir, resolved
GitCommonDir(cwd) == Resolve(GitDirA)

\* current_branch(cwd): git rev-parse --abbrev-ref HEAD
CurrentBranch(g, cwd) == IF cwd = "A" THEN g.current ELSE Some(cwd)

\* local_branch_exists: git show-ref --verify --quiet refs/heads/<branch>
LocalBranchExists(g, branch) == HeadRef(branch) \in DOMAIN g.refs

\* worktree_path.exists()
PathExists(g, path) == path \in g.worktrees

\* _worktree_has_uncommitted_changes(cwd = path)
WorktreeHasUncommittedChanges(g, path) == path \in g.dirty

\* the branch checked out in the linked worktree at path
CheckedOutAt(path) == CHOOSE b \in WsBranchSet : DeriveWorkspacePath(b) = path

\* whether some worktree has the branch checked out
CheckedOut(g, branch) ==
    \/ g.current = Some(branch)
    \/ DeriveWorkspacePath(branch) \in g.worktrees

\* the branches every repository has
BaseBranches == {"main", "release"}

\* The call of git or of the file system that fails for a reason outside the
\* repository state modelled here (a locked worktree, a branch that is not
\* fully merged, a directory that cannot be written): <<"none">> for none.
Failures ==
    {<<"none">>, <<"write">>}
        \cup {<<"worktree", b>> : b \in WsBranchSet}
        \cup {<<"branch", b>> : b \in WsBranchSet}

\* the failures that can meet a command on the one branch
FailuresOn(branch) == {<<"none">>, <<"write">>, <<"worktree", branch>>, <<"branch", branch>>}

\* how a step of a command ends: the repository after it, and the code of the
\* AppError it raises ("none" where it returns)
Done(g) == [g |-> g, code |-> "none"]
Fail(g, code) == [g |-> g, code |-> code]

\* The element of a one-element set. A value a command computes once and uses
\* several times is bound as the element of a one-element set.
The(set) == CHOOSE x \in set : TRUE

\* _remove_worktree: git worktree remove [--force] <path>
RemoveWorktree(g, path, force, fail) ==
    IF \/ path \notin g.worktrees
       \/ ~force /\ path \in g.dirty
       \/ fail = <<"worktree", CheckedOutAt(path)>>
    THEN Fail(g, "worktree-delete-failed")
    ELSE Done(Logged([g EXCEPT !.worktrees = @ \ {path}, !.dirty = @ \ {path}],
                     "worktree-remove"))

\* _delete_local_branch: git branch -d|-D <branch>
DeleteLocalBranch(g, branch, force, fail) ==
    IF \/ ~LocalBranchExists(g, branch)
       \/ CheckedOut(g, branch)
       \/ fail = <<"branch", branch>>
    THEN Fail(g, "branch-delete-failed")
    ELSE Done(Logged([g EXCEPT !.refs = [r \in DOMAIN @ \ {HeadRef(branch)} |-> @[r]]],
                     "branch-delete"))

\* _create_branch: git branch <branch> <base_ref>
CreateBranch(g, branch, base_ref, fail) ==
    IF \/ LocalBranchExists(g, branch)
       \/ ~LocalBranchExists(g, base_ref)
       \/ fail = <<"branch", branch>>
    THEN Fail(g, "branch-create-failed")
    ELSE Done(Logged([g EXCEPT !.refs = SetRef(@, HeadRef(branch), @[HeadRef(base_ref)])],
                     "branch-create"))

\* _add_worktree: git worktree add <destination> <branch>
AddWorktree(g, branch, destination, fail) ==
    IF \/ destination \in g.worktrees
       \/ ~LocalBranchExists(g, branch)
       \/ CheckedOut(g, branch)
       \/ fail = <<"worktree", branch>>
    THEN Fail(g, "worktree-create-failed")
    ELSE Done(Logged([g EXCEPT !.worktrees = @ \cup {destination}], "worktree-add"))

\* metadata_manager.read(): "invalid-metadata" stands for its ValueError
ReadMetadata(g) ==
    The({[g |-> IF r.fs = g.files THEN g
                ELSE Logged([g EXCEPT !.files = r.fs], MetadataWrite),
          code |-> IF r.ok THEN "none" ELSE "invalid-metadata",
          value |-> r.value] : r \in {ReadWhole(g.files, 1)}})

\* metadata_manager.write(m): "invalid-metadata" stands for its ValueError,
\* "os-error" for the OSError of _atomic_write_text
WriteMetadata(g, m, fail) ==
    IF ~ValidateWorkspacesMetadata(m) THEN Fail(g, "invalid-metadata")
    ELSE IF fail = <<"write">> THEN Fail(g, "os-error")
    ELSE Done(Logged([g EXCEPT !.files = WriteWhole(@, m).fs], MetadataWrite))


\* ----------------------------------------------------------------- delete

DeleteBlockReasonIgnored(cur, target, force) == None

\* delete_block_reason
DeleteBlockReason(cur, target, force) ==
    IF force THEN None
    ELSE IF cur = Some(target) THEN Some("current-workspace")
    ELSE None

\* the metadata value without the workspaces `pruned` of the repo repo_key
Untracked(metadata, repo_key, pruned) ==
    LET repo == metadata.repos[repo_key]
        updated_workspaces ==
            [k \in DOMAIN repo.workspaces \ pruned |-> repo.workspaces[k]]
        updated_repo == [repo EXCEPT !.workspaces = updated_workspaces]
    IN  [version |-> metadata.version,
         repos |-> [metadata.repos EXCEPT ![repo_key] = updated_repo]]

\* delete_workspace, from "_delete_local_branch" on
DeleteBranchAndUntrack(removed, metadata, repo_key, branch, force, fail) ==
    IF removed.code # "none" THEN removed
    ELSE The({IF deleted.code # "none" THEN deleted
              ELSE WriteMetadata(deleted.g, Untracked(metadata, repo_key, {S(branch)}), fail) :
                 deleted \in {DeleteLocalBranch(removed.g, branch, force, fail)}})

\* delete_workspace, from "plan = _build_delete_plan" on
DeleteLive(g, metadata, repo_key, branch, force, fail) ==
    LET workspace == metadata.repos[repo_key].workspaces[S(branch)]
    IN  The({DeleteBranchAndUntrack(removed, metadata, repo_key, branch, force, fail) :
                removed \in {IF PathExists(g, workspace.worktree_path)
                             THEN RemoveWorktree(g, workspace.worktree_path, force, fail)
                             ELSE Done(g)}})

\* delete_workspace, from "repo_key = str(repo_git_dir)" on
DeleteAfterRead(rd, cwd, branch, force, dry_run, fail) ==
    LET metadata == rd.value
        repo_key == RepoKey(cwd)
        tracked == /\ repo_key \in DOMAIN metadata.repos
                   /\ S(branch) \in DOMAIN metadata.repos[repo_key].workspaces
        workspace == metadata.repos[repo_key].workspaces[S(branch)]
    IN  IF rd.code # "none" THEN Fail(rd.g, rd.code)
        ELSE IF repo_key \notin DOMAIN metadata.repos
        THEN Fail(rd.g, "repo-not-tracked")
        ELSE IF ~tracked THEN Fail(rd.g, "workspace-not-tracked")
        ELSE IF DeleteBlockReason(CurrentBranch(rd.g, cwd), branch, force) # None
        THEN Fail(rd.g, "delete-blocked")
        ELSE IF /\ ~force
                /\ PathExists(rd.g, workspace.worktree_path)
                /\ WorktreeHasUncommittedChanges(rd.g, workspace.worktree_path)
        THEN Fail(rd.g, "workspace-dirty")
        ELSE IF dry_run THEN Done(rd.g)
        ELSE DeleteLive(rd.g, metadata, repo_key, branch, force, fail)

\* delete_workspace(cwd, branch, metadata_manager, force, dry_run)
DeleteWorkspace(g, cwd, branch, force, dry_run, fail) ==
    The({DeleteAfterRead(rd, cwd, branch, force, dry_run, fail) : rd \in {ReadMetadata(g)}})

\* ------------------------------------------------------------------ prune

\* PrStatus, and None for a branch pr_status_by_branch has no entry for
PrStatuses == {"merged", "open", "closed", "unknown", "unavailable", "None"}

PruneReasonMergedOnly(local_branch_exists, pr_status) ==
    IF pr_status = "merged" THEN Some("merged-pr") ELSE None

\* prune_reason(PruneCandidate(branch, local_branch_exists, pr_status))
PruneReason(local_branch_exists, pr_status) ==
    IF ~local_branch_exists THEN Some("missing-local-branch")
    ELSE IF pr_status = "merged" THEN Some("merged-pr")
    ELSE None

PruneBlockReasonDirtyOnly(g, cur, target, worktree_path, force) ==
    IF force THEN None
    ELSE IF PathExists(g, worktree_path) /\ WorktreeHasUncommittedChanges(g, worktree_path)
    THEN Some("workspace-dirty")
    ELSE None

\* prune_block_reason
PruneBlockReason(g, cur, target, worktree_path, force) ==
    IF force THEN None
    ELSE IF cur = Some(target) THEN Some("current-workspace")
    ELSE IF PathExists(g, worktree_path) /\ WorktreeHasUncommittedChanges(g, worktree_path)
    THEN Some("workspace-dirty")
    ELSE None

\* the keys of repo_workspaces in sorted() order
SortedBranches(repo_workspaces) ==
    SelectSeq(WsBranches, LAMBDA b : S(b) \in DOMAIN repo_workspaces)

\* _prune_decisions: statuses maps a branch to its PrStatus
RECURSIVE PruneDecisionsFrom(_, _, _, _, _, _)
PruneDecisionsFrom(g, branches, statuses, force, cur, repo_workspaces) ==
    IF branches = << >> THEN << >>
    ELSE LET branch == Head(branches)
             exists == LocalBranchExists(g, branch)
             reason == PruneReason(exists, statuses[branch])
             worktree_path == repo_workspaces[S(branch)].worktree_path
             decision == [branch |-> branch,
                          reason |-> reason.v,
                          block_reason |-> PruneBlockReason(g, cur, branch, worktree_path, force),
                          local_branch_exists |-> exists,
                          worktree_path |-> worktree_path]
         IN  IF reason = None
             THEN PruneDecisionsFrom(g, Tail(branches), statuses, force, cur, repo_workspaces)
             ELSE <<decision>> \o
                  PruneDecisionsFrom(g, Tail(branches), statuses, force, cur, repo_workspaces)

PruneDecisions(g, statuses, force, cur, repo_workspaces) ==
    PruneDecisionsFrom(g, SortedBranches(repo_workspaces), statuses, force, cur,
                       repo_workspaces)

\* one turn of "for decision in decisions" of prune_workspaces
PruneOne(g, decision, force, fail) ==
    IF decision.block_reason # None THEN Done(g)
    ELSE The({IF removed.code # "none" THEN removed
              ELSE IF decision.local_branch_exists
              THEN DeleteLocalBranch(removed.g, decision.branch, force, fail)
              ELSE Done(removed.g) :
                 removed \in {IF PathExists(g, decision.worktree_path)
                              THEN RemoveWorktree(g, decision.worktree_path, force, fail)
                              ELSE Done(g)}})

\* "for decision in decisions": the loop ends at the first AppError
RECURSIVE PruneLoop(_, _, _, _)
PruneLoop(g, decisions, force, fail) ==
    IF decisions = << >> THEN Done(g)
    ELSE The({IF one.code # "none" THEN one
              ELSE PruneLoop(one.g, Tail(decisions), force, fail) :
                 one \in {PruneOne(g, Head(decisions), force, fail)}})

\* prune_workspaces, from "pruned_branches = ..." on
PruneLive(g, metadata, repo_key, decisions, force, fail) ==
    LET pruned_branches == {S(decisions[i].branch) :
                               i \in {j \in DOMAIN decisions : decisions[j].block_reason = None}}
    IN  The({IF looped.code # "none" THEN looped
             ELSE IF pruned_branches = {} THEN looped
             ELSE WriteMetadata(looped.g, Untracked(metadata, repo_key, pruned_branches), fail) :
                looped \in {PruneLoop(g, decisions, force, fail)}})

\* prune_workspaces, from "plan = _build_prune_plan" on; the decisions taken
\* are returned with the outcome
PruneFromPlanLive(g, metadata, repo_key, decisions, force, dry_run, fail) ==
    The({[g |-> out.g, code |-> out.code, decisions |-> decisions] :
            out \in {PruneLive(g, metadata, repo_key, decisions, force, fail)}})

PruneFromPlan(g, metadata, repo_key, decisions, force, dry_run, fail) ==
    The({[g |-> out.g, code |-> out.code, decisions |-> decisions] :
            out \in {IF dry_run THEN Done(g)
                     ELSE PruneLive(g, metadata, repo_key, decisions, force, fail)}})

\* prune_workspaces, from "repo = metadata.repos.get(str(repo_git_dir))" on
PruneAfterRead(rd, cwd, statuses, force, dry_run, fail) ==
    LET metadata == rd.value
        own_key == RepoKey(cwd)
        common_key == PathStr(GitCommonDir(cwd))
        found == own_key \in DOMAIN metadata.repos \/ common_key \in DOMAIN metadata.repos
        repo == IF own_key \in DOMAIN metadata.repos THEN metadata.repos[own_key]
                ELSE metadata.repos[common_key]
    IN  IF rd.code # "none" THEN [g |-> rd.g, code |-> rd.code, decisions |-> << >>]
        ELSE IF ~found THEN [g |-> rd.g, code |-> "repo-not-tracked", decisions |-> << >>]
        ELSE The({PruneFromPlan(rd.g, metadata, PathStr(repo.git_dir), decisions,
                                force, dry_run, fail) :
                     decisions \in {PruneDecisions(rd.g, statuses, force,
                                                   CurrentBranch(rd.g, cwd), repo.workspaces)}})

\* prune_workspaces(cwd, metadata_manager, pr_status_by_branch, force, dry_run)
PruneWorkspaces(g, cwd, statuses, force, dry_run, fail) ==
    The({PruneAfterRead(rd, cwd, statuses, force, dry_run, fail) : rd \in {ReadMetadata(g)}})


\* -------------------------------------------------------------------- new

\* _utc_now_iso() at the time of the command
CreateTimestamp == <<"2026-03-02T00:00:00", "Z">>

\* the WorkspaceMetadata create_standard_workspace builds
StandardWorkspace(branch, destination, tracked_remote, base_ref, timestamp) ==
    [branch |-> S(branch),
     worktree_path |-> destination,
     tracked_remote |-> tracked_remote,
     kind |-> S("standard"),
     base_ref |-> S(base_ref),
     octopus_parents |-> << >>,
     created_at |-> timestamp,
     updated_at |-> timestamp]

\* the metadata value with the workspace added to the repo repo_key
Tracking(metadata, repo_key, workspace, timestamp) ==
    LET repo == metadata.repos[repo_key]
        updated_workspaces ==
            [k \in DOMAIN repo.workspaces \cup {workspace.branch} |->
                IF k = workspace.branch THEN workspace ELSE repo.workspaces[k]]
    IN  [version |-> metadata.version,
         repos |-> [metadata.repos EXCEPT
                       ![repo_key] = [repo EXCEPT !.updated_at = timestamp,
                                                  !.workspaces = updated_workspaces]]]

ResolveBaseRefMain(g, cwd, base_ref) == [code |-> "none", ref |-> "main"]

\* resolve_base_ref(cwd, base_ref): base_ref is None or Some(branch)
ResolveBaseRef(g, cwd, base_ref) ==
    IF base_ref # None
    THEN IF LocalBranchExists(g, base_ref.v)
         THEN [code |-> "none", ref |-> base_ref.v]
         ELSE [code |-> "invalid-base-ref", ref |-> base_ref.v]
    ELSE IF CurrentBranch(g, cwd) = None
    THEN [code |-> "detached-head", ref |-> ""]
    ELSE [code |-> "none", ref |-> CurrentBranch(g, cwd).v]

CreateLiveWriteFirst(g, metadata, repo_key, branch, resolved_base_ref, fail) ==
    LET repo == metadata.repos[repo_key]
        destination == DeriveWorkspacePath(branch)
        workspace == StandardWorkspace(branch, destination, repo.default_remote,
                                       resolved_base_ref, CreateTimestamp)
    IN  The({IF created.code # "none" THEN created
             ELSE The({IF written.code # "none" THEN written
                       ELSE AddWorktree(written.g, branch, destination, fail) :
                          written \in {WriteMetadata(created.g,
                                           Tracking(metadata, repo_key, workspace,
                                                    CreateTimestamp), fail)}}) :
                created \in {CreateBranch(g, branch, resolved_base_ref, fail)}})

\* create_standard_workspace, from "_create_branch" on
CreateLive(g, metadata, repo_key, branch, resolved_base_ref, fail) ==
    LET repo == metadata.repos[repo_key]
        destination == DeriveWorkspacePath(branch)
        workspace == StandardWorkspace(branch, destination, repo.default_remote,
                                       resolved_base_ref, CreateTimestamp)
    IN  The({IF created.code # "none" THEN created
             ELSE The({IF added.code # "none" THEN added
                       ELSE WriteMetadata(added.g,
                                Tracking(metadata, repo_key, workspace, CreateTimestamp), fail) :
                          added \in {AddWorktree(created.g, branch, destination, fail)}}) :
                created \in {CreateBranch(g, branch, resolved_base_ref, fail)}})

\* metadata_manager.ensure_repo_tracked(cwd)
EnsureRepoTracked(g, cwd, fail) ==
    The({IF rd.code # "none" THEN Fail(rd.g, rd.code)
         ELSE WriteMetadata(rd.g, TrackedMetadata(rd.value, cwd, CreateTimestamp), fail) :
            rd \in {ReadMetadata(g)}})

\* create_standard_workspace, from "repo_key = str(repo_git_dir)" on
CreateAfterRead(rd, cwd, branch, base_ref, fail) ==
    LET metadata == rd.value
        repo_key == RepoKey(cwd)
        resolved == ResolveBaseRef(rd.g, cwd, base_ref)
    IN  IF rd.code # "none" THEN Fail(rd.g, rd.code)
        ELSE IF repo_key \notin DOMAIN metadata.repos THEN Fail(rd.g, "repo-not-tracked")
        ELSE IF LocalBranchExists(rd.g, branch) THEN Fail(rd.g, "branch-already-exists")
        ELSE IF resolved.code # "none" THEN Fail(rd.g, resolved.code)
        ELSE CreateLive(rd.g, metadata, repo_key, branch, resolved.ref, fail)

\* create_standard_workspace(cwd, branch, base_ref, metadata_manager)
CreateStandardWorkspace(g, cwd, branch, base_ref, fail) ==
    The({IF ensured.code # "none" THEN ensured
         ELSE The({CreateAfterRead(rd, cwd, branch, base_ref, fail) :
                      rd \in {ReadMetadata(ensured.g)}}) :
            ensured \in {EnsureRepoTracked(g, cwd, fail)}})


\* A commit: its message and its parents, first parent first. An OID names
\* the commit, so the model uses the commit as its own OID.
Commit(message, parents) == [message |-> message, parents |-> parents]

\* the commit a branch of the repository starts at
BranchOid(branch) == Commit(<<"tip of", branch>>, << >>)

\* whether commit a is b or is reachable from b
RECURSIVE IsAncestor(_, _)
IsAncestor(a, b) ==
    a = b \/ \E i \in DOMAIN b.parents : IsAncestor(a, b.parents[i])

\* --------------------------------------------------------- new (octopus)

\* str.strip() of a string whose whitespace is the token " "
RECURSIVE LStrip(_)
LStrip(str) ==
    IF str # << >> /\ Head(str) = " " THEN LStrip(Tail(str)) ELSE str

RECURSIVE RStrip(_)
RStrip(str) ==
    IF str # << >> /\ str[Len(str)] = " " THEN RStrip(SubSeq(str, 1, Len(str) - 1)) ELSE str

Strip(str) == LStrip(RStrip(str))

\* [ref.strip() for ref in parent_refs if ref.strip()]
RECURSIVE StrippedRefs(_)
StrippedRefs(parent_refs) ==
    IF parent_refs = << >> THEN << >>
    ELSE IF Strip(Head(parent_refs)) = << >> THEN StrippedRefs(Tail(parent_refs))
    ELSE <<Strip(Head(parent_refs))>> \o StrippedRefs(Tail(parent_refs))

\* the local branch a ref string names: git rev-parse --verify <ref> finds
\* the refs that are local branches
RefBranch(ref) == ref[1]

RefExists(g, ref) == Len(ref) = 1 /\ LocalBranchExists(g, RefBranch(ref))

NormalizeOctopusParentRefsReversed(g, parent_refs) ==
    LET normalized == Reverse(StrippedRefs(parent_refs))
        missing_refs == SelectSeq(normalized, LAMBDA ref : ~RefExists(g, ref))
    IN  IF Len(normalized) < 2 THEN [code |-> "invalid-octopus-parents", refs |-> << >>]
        ELSE IF Cardinality({normalized[i] : i \in DOMAIN normalized}) # Len(normalized)
        THEN [code |-> "invalid-octopus-parents", refs |-> << >>]
        ELSE IF missing_refs # << >> THEN [code |-> "invalid-base-ref", refs |-> << >>]
        ELSE [code |-> "none", refs |-> normalized]

\* _normalize_octopus_parent_refs(cwd, parent_refs)
NormalizeOctopusParentRefs(g, parent_refs) ==
    LET normalized == StrippedRefs(parent_refs)
        missing_refs == SelectSeq(normalized, LAMBDA ref : ~RefExists(g, ref))
    IN  IF Len(normalized) < 2 THEN [code |-> "invalid-octopus-parents", refs |-> << >>]
        ELSE IF Cardinality({normalized[i] : i \in DOMAIN normalized}) # Len(normalized)
        THEN [code |-> "invalid-octopus-parents", refs |-> << >>]
        ELSE IF missing_refs # << >> THEN [code |-> "invalid-base-ref", refs |-> << >>]
        ELSE [code |-> "none", refs |-> normalized]

\* The heads git merge records after HEAD: of the commits named, those that
\* are not reachable from HEAD or from another commit named, each once.
RECURSIVE ReducedHeads(_, _, _)
ReducedHeads(head, tips, i) ==
    IF i > Len(tips) THEN << >>
    ELSE LET tip == tips[i]
             redundant ==
                 \/ IsAncestor(tip, head)
                 \/ \E j \in DOMAIN tips :
                       /\ j # i
                       /\ IsAncestor(tip, tips[j])
                       /\ tips[j] = tip => j < i
         IN  IF redundant THEN ReducedHeads(head, tips, i + 1)
             ELSE <<tip>> \o ReducedHeads(head, tips, i + 1)

\* git merge --no-ff -m <message> <merge_parents...> in the worktree that has
\* the branch checked out. Where every commit named is reachable from HEAD git
\* reports "Already up to date", exits with 0 and makes no commit; a merge
\* that stops on conflicts leaves them in the worktree at path.
MergeNoFf(g, branch, path, merge_parents, message, code, fail) ==
    LET head == g.refs[HeadRef(branch)]
        tips == [i \in DOMAIN merge_parents |-> g.refs[merge_parents[i]]]
        heads == ReducedHeads(head, tips, 1)
    IN  IF fail = <<"merge", branch>>
        THEN Fail(Logged([g EXCEPT !.dirty = @ \cup {path}], "merge"), code)
        ELSE IF heads = << >> THEN Done(g)
        ELSE Done(Logged([g EXCEPT !.refs = SetRef(@, HeadRef(branch),
                                                   Commit(message, <<head>> \o heads))],
                         "merge"))

\* _create_octopus_merge_commit(cwd = destination, branch, merge_parents)
CreateOctopusMergeCommit(g, branch, destination, merge_parents, fail) ==
    MergeNoFf(g, branch, destination,
              [i \in DOMAIN merge_parents |-> HeadRef(RefBranch(merge_parents[i]))],
              <<"Create octopus workspace", branch>>, "octopus-merge-failed", fail)

\* the WorkspaceMetadata create_octopus_workspace builds
OctopusWorkspace(branch, destination, tracked_remote, normalized_parent_refs, timestamp) ==
    [branch |-> S(branch),
     worktree_path |-> destination,
     tracked_remote |-> tracked_remote,
     kind |-> S("octopus"),
     base_ref |-> normalized_parent_refs[1],
     octopus_parents |-> normalized_parent_refs,
     created_at |-> timestamp,
     updated_at |-> timestamp]

\* create_octopus_workspace, from "_add_worktree" on
OctopusAddMergeTrack(created, metadata, repo_key, branch, normalized_parent_refs, fail) ==
    LET repo == metadata.repos[repo_key]
        destination == DeriveWorkspacePath(branch)
        workspace == OctopusWorkspace(branch, destination, repo.default_remote,
                                      normalized_parent_refs, CreateTimestamp)
    IN  IF created.code # "none" THEN created
        ELSE The({IF added.code # "none" THEN added
                  ELSE The({IF merged.code # "none" THEN merged
                            ELSE WriteMetadata(merged.g,
                                     Tracking(metadata, repo_key, workspace, CreateTimestamp),
                                     fail) :
                               merged \in {CreateOctopusMergeCommit(added.g, branch, destination,
                                                Tail(normalized_parent_refs), fail)}}) :
                     added \in {AddWorktree(created.g, branch, destination, fail)}})

\* create_octopus_workspace, from "_create_branch" on
OctopusLive(g, metadata, repo_key, branch, normalized_parent_refs, fail) ==
    The({OctopusAddMergeTrack(created, metadata, repo_key, branch, normalized_parent_refs, fail) :
            created \in {CreateBranch(g, branch, RefBranch(normalized_parent_refs[1]), fail)}})

\* create_octopus_workspace, from "metadata = metadata_manager.read()" on
OctopusAfterRead(rd, cwd, branch, normalized, fail) ==
    LET metadata == rd.value
        repo_key == RepoKey(cwd)
    IN  IF rd.code # "none" THEN Fail(rd.g, rd.code)
        ELSE IF repo_key \notin DOMAIN metadata.repos THEN Fail(rd.g, "repo-not-tracked")
        ELSE IF LocalBranchExists(rd.g, branch) THEN Fail(rd.g, "branch-already-exists")
        ELSE OctopusLive(rd.g, metadata, repo_key, branch, normalized.refs, fail)

\* create_octopus_workspace, from "normalized_parent_refs = ..." on
OctopusAfterEnsure(ensured, cwd, branch, parent_refs, fail) ==
    IF ensured.code # "none" THEN ensured
    ELSE The({IF normalized.code # "none" THEN Fail(ensured.g, normalized.code)
              ELSE The({OctopusAfterRead(rd, cwd, branch, normalized, fail) :
                           rd \in {ReadMetadata(ensured.g)}}) :
                 normalized \in {NormalizeOctopusParentRefs(ensured.g, parent_refs)}})

\* create_octopus_workspace(cwd, branch, parent_refs, metadata_manager)
CreateOctopusWorkspace(g, cwd, branch, parent_refs, fail) ==
    The({OctopusAfterEnsure(ensured, cwd, branch, parent_refs, fail) :
            ensured \in {EnsureRepoTracked(g, cwd, fail)}})


\* --------------------------------------------- the commands as a program

\* the repository as the variables hold it
Now == RepoState(refs, worktrees, dirty, current, files)

StartTimestamp == <<"2026-03-01T00:00:00", "+00:00">>

\* repositories A and C tracked, A with the workspaces of the branches bs
MetadataWith(bs) ==
    LET tracked == TrackedMetadata(OtherRepoMetadata, "A", StartTimestamp)
        repo == tracked.repos[RepoKey("A")]
    IN  [tracked EXCEPT !.repos[RepoKey("A")].workspaces =
            [k \in {S(b) : b \in bs} |->
                StandardWorkspace(k[1], DeriveWorkspacePath(k[1]),
                                  repo.default_remote, "main", StartTimestamp)]]

\* the values handed to write: one that is valid, one whose repo key is not
\* the string of git_dir, one whose git_dir is not its own realpath, and one
\* whose workspace key is not the branch
KeyedByOtherRepo ==
    [version |-> SCHEMA_VERSION,
     repos |-> [k \in {PathStr(GitDirB)} |-> MetadataWith({"alpha"}).repos[RepoKey("A")]]]

KeyedBySymlink ==
    [version |-> SCHEMA_VERSION,
     repos |-> [k \in {PathStr(GitDirC)} |->
                   [OtherRepoMetadata.repos[RepoKey("C")] EXCEPT !.git_dir = GitDirC]]]

KeyedByOtherBranch ==
    [MetadataWith({"alpha"}) EXCEPT !.repos[RepoKey("A")].workspaces =
        [k \in {S("beta")} |-> MetadataWith({"alpha"}).repos[RepoKey("A")].workspaces[S("alpha")]]]

CmdWriteValues ==
    {MetadataWith({"alpha"}), KeyedByOtherRepo, KeyedBySymlink, KeyedByOtherBranch}

\* the fields of cmd: the command, its arguments, how it ended, the decisions
\* a prune took and the repository it began in
Command(name, cwd, branch, force, dry_run, fail, statuses, value, out, decisions) ==
    [name |-> name, cwd |-> cwd, branch |-> branch, force |-> force,
     dry_run |-> dry_run, fail |-> fail, statuses |-> statuses, value |-> value,
     status |-> IF out.code = "none" THEN "returned" ELSE "raised",
     code |-> out.code, decisions |-> decisions, log |-> out.g.log, before |-> Now,
     json_output |-> FALSE, returns |-> None, base_ref |-> None, parent_refs |-> << >>]

\* what delete_workspace and prune_workspaces return: the plan rendered by
\* render_json_plan or by render_human_plan in dry-run mode, None otherwise
Rendered(out, dry_run, json_output) ==
    IF dry_run /\ out.code = "none"
    THEN IF json_output THEN Some("render_json_plan") ELSE Some("render_human_plan")
    ELSE None

\* the fields of cmd of create_standard_workspace: it returns destination
Creates(command, out, base_ref) ==
    [command EXCEPT !.base_ref = base_ref,
                    !.returns = IF out.code = "none"
                                THEN Some(DeriveWorkspacePath(command.branch)) ELSE None]

\* the fields of cmd of a command that takes json_output
Renders(command, out, json_output) ==
    [command EXCEPT !.json_output = json_output,
                    !.returns = Rendered(out, command.dry_run, json_output)]

\* pr_status_by_branch: every PrStatus for the first branch, against a second
\* branch whose PR is merged, open or has no entry
PruneStatuses ==
    {st \in [WsBranchSet -> PrStatuses] : st[WsBranches[2]] \in {"merged", "open", "None"}}

NoStatuses == [b \in WsBranchSet |-> "None"]

\* the branches some repo of the metadata value m tracks a workspace for
TrackedBranches(m) ==
    {b \in WsBranchSet : \E k \in DOMAIN m.repos : S(b) \in DOMAIN m.repos[k].workspaces}

\* pr_status_by_branch has entries for workspaces that are tracked
PruneStatusesOf(g) ==
    The({{st \in PruneStatuses : \A b \in WsBranchSet \ tracked : st[b] = "None"} :
            tracked \in {TrackedBranches(ReadWhole(g.files, 1).value)}})

\* The command leaves the repository as out.g. A command that changed nothing
\* is the last one: the commands that could follow it are the ones that follow
\* the state it began in.
Ran(out, command) ==
    /\ commands_left' = IF [out.g EXCEPT !.log = << >>] = Now THEN 0
                        ELSE commands_left - 1
    /\ refs' = out.g.refs
    /\ worktrees' = out.g.worktrees
    /\ dirty' = out.g.dirty
    /\ current' = out.g.current
    /\ files' = out.g.files
    /\ cmd' = command
    /\ UNCHANGED <<txnVars, original_refs, original_metadata, procVars, rtVars, cacheVars>>

\* metadata_manager.write(value)
CmdWrite(value, fail) ==
    /\ commands_left > 0
    /\ \E out \in {WriteMetadata(Now, value, fail)} :
          Ran(out, Command("write", "A", "", FALSE, FALSE, fail, NoStatuses, value,
                           out, << >>))

\* metadata_manager.ensure_repo_tracked(cwd)
CmdEnsureRepoTracked(cwd, fail) ==
    /\ commands_left > 0
    /\ \E out \in {EnsureRepoTracked(Now, cwd, fail)} :
          Ran(out, Command("ensure_repo_tracked", cwd, "", FALSE, FALSE, fail, NoStatuses,
                           EmptyMetadata, out, << >>))

\* gitcuttle new <branch> [--base <ref>]
CmdCreate(cwd, branch, base_ref, fail) ==
    /\ commands_left > 0
    /\ \E out \in {CreateStandardWorkspace(Now, cwd, branch, base_ref, fail)} :
          Ran(out, Creates(Command("create", cwd, branch, FALSE, FALSE, fail, NoStatuses,
                                   EmptyMetadata, out, << >>), out, base_ref))

\* gitcuttle delete <branch> [--force] [--dry-run]
CmdDelete(cwd, branch, force, dry_run, json_output, fail) ==
    /\ commands_left > 0
    /\ \E out \in {DeleteWorkspace(Now, cwd, branch, force, dry_run, fail)} :
          Ran(out, Renders(Command("delete", cwd, branch, force, dry_run, fail, NoStatuses,
                                   EmptyMetadata, out, << >>), out, json_output))

\* gitcuttle prune [--force] [--dry-run]
CmdPrune(cwd, statuses, force, dry_run, json_output, fail) ==
    /\ commands_left > 0
    /\ \E out \in {PruneWorkspaces(Now, cwd, statuses, force, dry_run, fail)} :
          Ran(out, Renders(Command("prune", cwd, "", force, dry_run, fail, statuses,
                                   EmptyMetadata, out, out.decisions), out, json_output))

\* --base: absent, a branch that is there, a ref that may or may not be
BaseRefs == {None, Some("main"), Some("alpha")}

\* the parents given to new for an octopus workspace: two or three refs in
\* either order, refs with blanks around them and blank refs, too few refs,
\* one ref twice, and a ref that may not be there
ParentRefLists ==
    {<<S("main"), S("release")>>,
     <<S("release"), S("main")>>,
     <<<<" ", "main">>, <<" ">>, <<"release", " ">>>>,
     <<S("release"), S("alpha"), S("main")>>,
     <<S("main"), S("alpha")>>,
     <<S("main"), <<" ", " ">>>>,
     <<S("main"), <<"main", " ">>>>}

\* the failures that can meet the creation of an octopus workspace; they are
\* injected into the creation from main and release
OctopusFailuresOn(branch) == FailuresOn(branch) \cup {<<"merge", branch>>}

\* gitcuttle new <branch> <parent_refs...>
CmdCreateOctopus(cwd, branch, parent_refs, fail) ==
    /\ commands_left > 0
    /\ \E out \in {CreateOctopusWorkspace(Now, cwd, branch, parent_refs, fail)} :
          Ran(out, [Creates(Command("create-octopus", cwd, branch, FALSE, FALSE, fail,
                                    NoStatuses, EmptyMetadata, out, << >>), out, None)
                       EXCEPT !.parent_refs = parent_refs])

\* the states of a repository git allows: a linked worktree has its branch,
\* no branch is checked out twice, only a worktree that exists is dirty
GitAllows(g) ==
    /\ HeadRef("main") \in DOMAIN g.refs
    /\ \A b \in WsBranchSet :
          DeriveWorkspacePath(b) \in g.worktrees =>
              LocalBranchExists(g, b) /\ g.current # Some(b)
    /\ g.current # None => LocalBranchExists(g, g.current.v)
    /\ g.dirty \subseteq g.worktrees


CmdStartRefs ==
    {[r \in {HeadRef(b) : b \in bs \cup BaseBranches} |-> BranchOid(r[3])] :
        bs \in SUBSET WsBranchSet}

\* the metadata directory of a repository with tracked workspaces
CmdStartFiles ==
    {Put(<< >>, MetaName, JsonDumps(SerializeWorkspacesMetadata(MetadataWith(bs)))) :
        bs \in SUBSET WsBranchSet}

\* a repository in use: any state git allows, with any of the workspaces tracked
InUse ==
    /\ refs \in CmdStartRefs
    /\ worktrees \in SUBSET {DeriveWorkspacePath(b) : b \in WsBranchSet}
    /\ dirty \in SUBSET worktrees
    /\ current \in {None} \cup {Some(b) : b \in WsBranchSet \cup {"main"}}
    /\ files \in CmdStartFiles
    /\ GitAllows(Now)

\* a repository nothing has been run in
FreshState ==
    RepoState([r \in {HeadRef(b) : b \in BaseBranches} |-> BranchOid(r[3])], {}, {},
              Some("main"), << >>)

CmdInit ==
    /\ steps = << >>
    /\ pc = "building"
    /\ cursor = 1
    /\ completed_steps = << >>
    /\ to_roll_back = << >>
    /\ rollback_failures = << >>
    /\ rolled_back_step_names = << >>
    /\ operation_error = NoError
    /\ raised = NoError
    /\ calls = << >>
    /\ original_refs = << >>
    /\ original_metadata = EmptyMetadata
    /\ ProcsIdle
    /\ RoundTripIdle
    /\ CacheIdle
    /\ cmd = NoCommand
    /\ \/ InUse /\ commands_left = 1
       \/ /\ refs = FreshState.refs
          /\ worktrees = FreshState.worktrees
          /\ dirty = FreshState.dirty
          /\ current = FreshState.current
          /\ files = FreshState.files
          /\ commands_left = MaxCommands

CmdNext ==
    \/ \E value \in CmdWriteValues, fail \in {<<"none">>, <<"write">>} :
          CmdWrite(value, fail)
    \/ \E cwd \in Cwds(Now) \cup {"C"}, fail \in {<<"none">>, <<"write">>} :
          CmdEnsureRepoTracked(cwd, fail)
       \* new is run from the main worktree, whose git_dir the derived path is of
    \/ \E cwd \in {"A"}, branch \in WsBranchSet, base_ref \in BaseRefs :
          \E fail \in FailuresOn(branch) : CmdCreate(cwd, branch, base_ref, fail)
    \/ \E cwd \in {"A"}, branch \in WsBranchSet, parent_refs \in ParentRefLists :
          \E fail \in IF parent_refs = <<S("main"), S("release")>>
                       THEN OctopusFailuresOn(branch) ELSE {<<"none">>} :
              CmdCreateOctopus(cwd, branch, parent_refs, fail)
    \/ \E cwd \in Cwds(Now), branch \in WsBranchSet, force \in BOOLEAN, dry_run \in BOOLEAN :
          \E fail \in IF dry_run THEN {<<"none">>} ELSE FailuresOn(branch),
             json_output \in IF dry_run THEN BOOLEAN ELSE {FALSE} :
              CmdDelete(cwd, branch, force, dry_run, json_output, fail)
    \/ \E cwd \in Cwds(Now), statuses \in PruneStatusesOf(Now), force \in BOOLEAN,
          dry_run \in BOOLEAN :
          \E fail \in IF dry_run THEN {<<"none">>} ELSE Failures,
             json_output \in IF dry_run THEN BOOLEAN ELSE {FALSE} :
              CmdPrune(cwd, statuses, force, dry_run, json_output, fail)

CmdSpec == CmdInit /\ [][CmdNext]_vars


\* ---------------------------------------------------------------------------
\* update.py and absorb.py: the history of a workspace branch
\* ---------------------------------------------------------------------------

\* post-merge commits on the workspace branch at the start
MaxPostMerge == 2

Remote == "origin"
OctopusBranch == "integration"
StandardBranch == "feature"

\* repo_root: the one worktree of the repository update and absorb run in
RepoRoot == MkPath("/", <<"repos", "demo">>)

RemoteRef(remote, branch) == <<"refs", "remotes", remote, branch>>

\* _rev_parse(ref) is not None
RevParse(g, ref) == ref \in DOMAIN g.refs

\* a or b, of two values that are None or Some(str)
PyOr(a, b) == IF a # None /\ a.v # << >> THEN a ELSE b

\* len(parent_oids) > 1
IsMergeCommit(commit) == Len(commit.parents) > 1

\* the elements of the sequence, each at its first place
RECURSIVE Dedup(_)
Dedup(seq) ==
    IF seq = << >> THEN << >>
    ELSE LET rest == Dedup(SubSeq(seq, 1, Len(seq) - 1))
             last == seq[Len(seq)]
         IN  IF \E i \in DOMAIN rest : rest[i] = last THEN rest ELSE Append(rest, last)

RECURSIVE Flatten(_)
Flatten(seqs) == IF seqs = << >> THEN << >> ELSE Head(seqs) \o Flatten(Tail(seqs))

\* git rev-list --reverse <tip> --not <excluded...>: the commits reachable
\* from tip and from none of the excluded commits, parents before children
RECURSIVE RevListReverse(_, _)
RevListReverse(tip, excluded) ==
    IF \E e \in excluded : IsAncestor(tip, e) THEN << >>
    ELSE Dedup(Flatten([i \in DOMAIN tip.parents |-> RevListReverse(tip.parents[i], excluded)])
               \o <<tip>>)

\* git fetch <remote_name>: the remote-tracking refs of the branches the
\* remote has are set to the remote's commits
Fetch(g, remote_name, remote, code, fail) ==
    IF fail = <<"fetch">> THEN Fail(g, code)
    ELSE Done(Logged([g EXCEPT !.refs =
                         [r \in DOMAIN @ \cup {RemoteRef(remote_name, b) : b \in DOMAIN remote} |->
                             IF r \in {RemoteRef(remote_name, b) : b \in DOMAIN remote}
                             THEN remote[r[4]] ELSE @[r]]],
                     "fetch"))

\* _checkout_branch: git checkout <branch>, which git refuses while the
\* worktree holds the conflicts of a merge or a cherry-pick
CheckoutBranch(g, branch, fail) ==
    IF \/ ~LocalBranchExists(g, branch)
       \/ RepoRoot \in g.dirty
       \/ fail = <<"checkout", branch>>
    THEN Fail(g, "branch-checkout-failed")
    ELSE Done(Logged([g EXCEPT !.current = Some(branch)], "checkout"))

\* git reset --hard <commit>, on the branch checked out
ResetHard(g, commit, code, fail) ==
    IF fail = <<"reset">> \/ g.current = None THEN Fail(g, code)
    ELSE Done(Logged([g EXCEPT !.refs = SetRef(@, HeadRef(g.current.v), commit)], "reset"))

\* the change a commit makes, which the commits made of it by cherry-pick
\* and rebase make too
Change(message) == IF Head(message) = "picked" THEN Tail(message) ELSE message

\* the commit git cherry-pick makes of `commit` on `head`: a new commit,
\* also where head is the parent the commit has
Picked(commit, head) == Commit(<<"picked">> \o Change(commit.message), <<head>>)

\* whether the change a commit of this message makes is in the history of head
RECURSIVE HasChange(_, _)
HasChange(message, head) ==
    Change(head.message) = Change(message) \/ \E i \in DOMAIN head.parents : HasChange(message, head.parents[i])

\* how the i-th cherry-pick is made to fail: it stops on conflicts, or git
\* refuses it and leaves the worktree as it was
PickFailure(fail, i) ==
    IF fail = <<"cherry-pick", i>> THEN "conflicts"
    ELSE IF fail = <<"cherry-pick-refused", i>> THEN "refused"
    ELSE "none"

\* git cherry-pick <commit>, on the branch checked out: a merge commit is
\* refused, as no -m is given, and so is a commit whose change the branch
\* has, as the pick would be empty; a commit that does not apply leaves its
\* conflicts in the worktree
CherryPickOne(g, commit, code, failure) ==
    IF \/ g.current = None \/ RepoRoot \in g.dirty \/ IsMergeCommit(commit)
       \/ failure = "refused"
       \/ HasChange(commit.message, g.refs[HeadRef(g.current.v)])
    THEN Fail(g, code)
    ELSE IF failure = "conflicts"
    THEN Fail(Logged([g EXCEPT !.dirty = @ \cup {RepoRoot}], "cherry-pick"), code)
    ELSE Done(Logged([g EXCEPT !.refs = SetRef(@, HeadRef(g.current.v),
                                               Picked(commit, @[HeadRef(g.current.v)]))],
                     "cherry-pick"))

\* git cherry-pick <commits...>: the commits picked before the one that
\* fails stay
RECURSIVE CherryPick(_, _, _, _, _)
CherryPick(g, commits, i, code, fail) ==
    IF i > Len(commits) THEN Done(g)
    ELSE The({IF picked.code # "none" THEN picked
              ELSE CherryPick(picked.g, commits, i + 1, code, fail) :
                 picked \in {CherryPickOne(g, commits[i], code, PickFailure(fail, i))}})

\* what a command on a workspace's history raises or returns: the
\* repository it leaves, the refs it resolved and the commits it set out to
\* move, where it got as far as that
Raises(out) == [g |-> out.g, code |-> out.code, parent_refs |-> << >>, commits |-> << >>]
RaisesMoving(out, parent_refs, commits) ==
    [g |-> out.g, code |-> out.code, parent_refs |-> parent_refs, commits |-> commits]
Returns(g, parent_refs, commits) ==
    [g |-> g, code |-> "none", parent_refs |-> parent_refs, commits |-> commits]

ResolveOctopusParentRefLocal(g, remote_name, parent_ref) ==
    IF RevParse(g, HeadRef(RefBranch(parent_ref)))
    THEN [code |-> "none", ref |-> HeadRef(RefBranch(parent_ref))]
    ELSE [code |-> "octopus-parent-missing", ref |-> << >>]

\* _resolve_octopus_parent_ref: the ref resolved, as the full name git gives it
ResolveOctopusParentRef(g, remote_name, parent_ref) ==
    IF remote_name # None /\ RevParse(g, RemoteRef(remote_name.v[1], RefBranch(parent_ref)))
    THEN [code |-> "none", ref |-> RemoteRef(remote_name.v[1], RefBranch(parent_ref))]
    ELSE IF RevParse(g, HeadRef(RefBranch(parent_ref)))
    THEN [code |-> "none", ref |-> HeadRef(RefBranch(parent_ref))]
    ELSE [code |-> "octopus-parent-missing", ref |-> << >>]

\* resolved_parent_refs = tuple(_resolve_octopus_parent_ref(...) for parent_ref
\* in workspace.octopus_parents): the first parent that is missing raises
RECURSIVE ResolvedParentRefs(_, _, _)
ResolvedParentRefs(g, remote_name, parents) ==
    IF parents = << >> THEN [code |-> "none", refs |-> << >>]
    ELSE LET first == ResolveOctopusParentRef(g, remote_name, Head(parents))
             rest == ResolvedParentRefs(g, remote_name, Tail(parents))
         IN  IF first.code # "none" THEN [code |-> first.code, refs |-> << >>]
             ELSE IF rest.code # "none" THEN rest
             ELSE [code |-> "none", refs |-> <<first.ref>> \o rest.refs]

\* _octopus_replay_commits(repo_root, branch, parent_refs)
OctopusReplayCommits(g, branch, parent_refs) ==
    LET commits == RevListReverse(g.refs[HeadRef(branch)],
                                  {g.refs[parent_refs[i]] : i \in DOMAIN parent_refs})
    IN  IF commits = << >> THEN << >>
        ELSE IF IsMergeCommit(commits[1]) THEN Tail(commits)
        ELSE commits

\* the finally clause of update_octopus_workspace: an AppError of its checkout
\* replaces the one the try block raised
RestoreOriginalBranch(tried, original_branch, branch, fail) ==
    IF original_branch # None /\ original_branch # Some(branch)
    THEN The({IF restored.code # "none" THEN restored ELSE [restored EXCEPT !.code = tried.code] :
                 restored \in {CheckoutBranch(tried.g, original_branch.v, fail)}})
    ELSE tried

\* the try block of update_octopus_workspace
RebuildAndReplay(g, branch, resolved_parent_refs, replay_commits, fail) ==
    The({IF reset.code # "none" THEN reset
         ELSE The({IF merged.code # "none" THEN merged
                   ELSE IF replay_commits # << >>
                   THEN CherryPick(merged.g, replay_commits, 1,
                                   "octopus-update-replay-failed", fail)
                   ELSE merged :
                      merged \in {MergeNoFf(reset.g, branch, RepoRoot,
                                            Tail(resolved_parent_refs),
                                            <<"Rebuild octopus workspace", branch>>,
                                            "octopus-update-merge-failed", fail)}}) :
            reset \in {ResetHard(g, g.refs[resolved_parent_refs[1]],
                                 "octopus-update-reset-failed", fail)}})

\* update_octopus_workspace, from "original_branch = _current_branch" on
UpdateOctopusReplaying(g, branch, resolved_parent_refs, replay_commits, fail) ==
    The({IF checked.code # "none"
         THEN RaisesMoving(checked, resolved_parent_refs, replay_commits)
         ELSE The({IF restored.code # "none"
                   THEN RaisesMoving(restored, resolved_parent_refs, replay_commits)
                   ELSE Returns(restored.g, resolved_parent_refs, replay_commits) :
                      restored \in {RestoreOriginalBranch(
                                        RebuildAndReplay(checked.g, branch, resolved_parent_refs,
                                                         replay_commits, fail),
                                        g.current, branch, fail)}}) :
            checked \in {CheckoutBranch(g, branch, fail)}})

\* update_octopus_workspace, from "before_oid = _branch_head" on
UpdateOctopusResolved(g, branch, resolved_parent_refs, fail) ==
    IF ~LocalBranchExists(g, branch) THEN Raises(Fail(g, "branch-missing"))
    ELSE The({UpdateOctopusReplaying(g, branch, resolved_parent_refs, replay_commits, fail) :
                 replay_commits \in {OctopusReplayCommits(g, branch, resolved_parent_refs)}})

\* update_octopus_workspace, from "resolved_parent_refs = ..." on
UpdateOctopusFetched(fetched, workspace, remote_name, fail) ==
    IF fetched.code # "none" THEN Raises(fetched)
    ELSE The({IF resolved.code # "none" THEN Raises(Fail(fetched.g, resolved.code))
              ELSE UpdateOctopusResolved(fetched.g, workspace.branch[1], resolved.refs, fail) :
                 resolved \in {ResolvedParentRefs(fetched.g, remote_name,
                                                  workspace.octopus_parents)}})

\* update_octopus_workspace(repo_root, workspace, default_remote); remote is
\* what the remote has when it is fetched
UpdateOctopusWorkspace(g, workspace, default_remote, remote, fail) ==
    LET remote_name == PyOr(workspace.tracked_remote, default_remote)
    IN  IF workspace.kind # S("octopus") THEN Raises(Fail(g, "invalid-workspace-kind"))
        ELSE IF Len(workspace.octopus_parents) < 2
        THEN Raises(Fail(g, "invalid-octopus-parents"))
        ELSE The({UpdateOctopusFetched(fetched, workspace, remote_name, fail) :
                     fetched \in {IF remote_name # None
                                  THEN Fetch(g, remote_name.v[1], remote,
                                             "update-fetch-failed", fail)
                                  ELSE Done(g)}})

\* git rebase <upstream> <branch>: the branch is checked out and its commits
\* that the upstream has not are made again on the upstream's tip, merges
\* left out; where the branch is linear on the upstream's tip already it is
\* left as it is. A rebase that stops on conflicts has not moved the branch;
\* HEAD is detached and the conflicts are in the worktree.
RECURSIVE PickedOnto(_, _)
PickedOnto(commits, head) ==
    IF commits = << >> THEN head
    ELSE PickedOnto(Tail(commits), Picked(Head(commits), head))

Rebase(g, upstream, branch, code, fail) ==
    LET listed == RevListReverse(g.refs[HeadRef(branch)], {g.refs[upstream]})
        commits == SelectSeq(listed, LAMBDA c : ~IsMergeCommit(c))
    IN  IF RepoRoot \in g.dirty THEN Fail(g, code)
        ELSE IF IsAncestor(g.refs[upstream], g.refs[HeadRef(branch)]) /\ commits = listed
        THEN Done(Logged([g EXCEPT !.current = Some(branch)], "rebase"))
        ELSE IF fail = <<"rebase">> /\ commits # << >>
        THEN Fail(Logged([g EXCEPT !.current = None, !.dirty = @ \cup {RepoRoot}], "rebase"),
                  code)
        ELSE Done(Logged([g EXCEPT !.current = Some(branch),
                                   !.refs = SetRef(@, HeadRef(branch),
                                                   PickedOnto(commits, @[upstream]))],
                         "rebase"))

\* update_non_octopus_workspace, from "if _rev_parse(...) is None" on
UpdateStandardFetched(fetched, branch, upstream, fail) ==
    IF fetched.code # "none" THEN Raises(fetched)
    ELSE IF ~RevParse(fetched.g, upstream) THEN Raises(Fail(fetched.g, "no-upstream"))
    ELSE IF ~LocalBranchExists(fetched.g, branch) THEN Raises(Fail(fetched.g, "branch-missing"))
    ELSE The({IF rebased.code # "none" THEN Raises(rebased)
              ELSE Returns(rebased.g, <<upstream>>, << >>) :
                 rebased \in {Rebase(fetched.g, upstream, branch, "update-rebase-failed",
                                     fail)}})

\* update_non_octopus_workspace(repo_root, workspace, default_remote)
UpdateNonOctopusWorkspace(g, workspace, default_remote, remote, fail) ==
    LET remote_name == PyOr(workspace.tracked_remote, default_remote)
    IN  IF workspace.kind # S("standard")
        THEN Raises(Fail(g, "octopus-update-not-supported"))
        ELSE IF remote_name = None THEN Raises(Fail(g, "no-upstream"))
        ELSE The({UpdateStandardFetched(fetched, workspace.branch[1],
                                        RemoteRef(remote_name.v[1], workspace.branch[1]), fail) :
                     fetched \in {Fetch(g, remote_name.v[1], remote,
                                        "update-fetch-failed", fail)}})


\* ------------------------------------------------------------------ absorb

\* the paths a commit may change
Paths == {"a.txt", "b.txt", "c.txt", "d.txt", "e.txt"}

\* confidence < 0.6, as best_score / len(changed_files) < 6 / 10
CONFIDENCE_TENTHS == 6

\* scores[parent]: the changed files that exist at the parent
Score(changed_files, exists, parent) == Cardinality(changed_files \cap exists[parent])

\* max(scores.items(), key=lambda item: item[1]): the first of the parents, in
\* the order of the dict, whose score no other exceeds
BestParent(changed_files, exists, parents) ==
    parents[CHOOSE i \in DOMAIN parents :
               /\ \A j \in DOMAIN parents :
                     Score(changed_files, exists, parents[j])
                         <= Score(changed_files, exists, parents[i])
               /\ \A j \in 1..(i - 1) :
                     Score(changed_files, exists, parents[j])
                         < Score(changed_files, exists, parents[i])]

LowConfidenceOrExact(best_score, total) == 10 * best_score <= CONFIDENCE_TENTHS * total

LowConfidence(best_score, total) == 10 * best_score < CONFIDENCE_TENTHS * total

\* _heuristic_target_parent: changed_files are the paths the commit changes,
\* exists[parent] the paths that exist at the parent
HeuristicTargetParent(changed_files, exists, parents) ==
    IF changed_files = {} THEN [code |-> "absorb-target-uncertain", target |-> << >>]
    ELSE LET best_parent == BestParent(changed_files, exists, parents)
             best_score == Score(changed_files, exists, best_parent)
             tied == Cardinality({parent \in {parents[i] : i \in DOMAIN parents} :
                                     Score(changed_files, exists, parent) = best_score}) > 1
         IN  IF best_score = 0 \/ tied
                \/ LowConfidence(best_score, Cardinality(changed_files))
             THEN [code |-> "absorb-target-uncertain", target |-> << >>]
             ELSE [code |-> "none", target |-> best_parent]

\* _octopus_unique_commits: rev-list fails where a parent ref names no commit
OctopusUniqueCommits(g, branch, parent_refs) ==
    IF \E i \in DOMAIN parent_refs : ~RevParse(g, HeadRef(RefBranch(parent_refs[i])))
    THEN [code |-> "octopus-update-analysis-failed", commits |-> << >>]
    ELSE [code |-> "none",
          commits |-> RevListReverse(g.refs[HeadRef(branch)],
                                     {g.refs[HeadRef(RefBranch(parent_refs[i]))] :
                                         i \in DOMAIN parent_refs})]

\* _split_octopus_history
SplitOctopusHistory(unique_commits) ==
    IF unique_commits = << >> THEN [merge_commit |-> None, post_merge_commits |-> << >>]
    ELSE IF IsMergeCommit(unique_commits[1])
    THEN [merge_commit |-> Some(unique_commits[1]), post_merge_commits |-> Tail(unique_commits)]
    ELSE [merge_commit |-> None, post_merge_commits |-> unique_commits]

\* The target of the i-th commit: the explicit one, the chooser's, or the
\* heuristic's. The callback answers chooser[1], chooser[2], ... and then
\* again from the first; content gives the paths the commits change and the parents have.
PlannedTarget(i, parents, explicit_target, interactive, chooser, content) ==
    IF explicit_target # None THEN [code |-> "none", target |-> explicit_target.v]
    ELSE IF interactive
    THEN [code |-> "none", target |-> chooser.v[((i - 1) % Len(chooser.v)) + 1]]
    ELSE HeuristicTargetParent(content.changed_files, content.exists, parents)

\* _plan_absorb_targets: the AbsorbedCommit of every commit, or the first error
RECURSIVE PlanAbsorbTargets(_, _, _, _, _, _, _)
PlanAbsorbTargets(commits, i, parents, explicit_target, interactive, chooser, content) ==
    IF i > Len(commits) THEN [code |-> "none", planned |-> << >>]
    ELSE LET chosen == PlannedTarget(i, parents, explicit_target, interactive, chooser, content)
             rest == PlanAbsorbTargets(commits, i + 1, parents, explicit_target, interactive,
                                       chooser, content)
         IN  IF chosen.code # "none" THEN [code |-> chosen.code, planned |-> << >>]
             ELSE IF \A j \in DOMAIN parents : parents[j] # chosen.target
             THEN [code |-> "invalid-absorb-target", planned |-> << >>]
             ELSE IF rest.code # "none" THEN rest
             ELSE [code |-> "none",
                   planned |-> <<[commit |-> commits[i], target_parent |-> chosen.target]>>
                               \o rest.planned]

\* for item in planned: _checkout_branch(item.target_parent); cherry-pick
RECURSIVE AbsorbPlanned(_, _, _, _)
AbsorbPlanned(g, planned, i, fail) ==
    IF i > Len(planned) THEN Done(g)
    ELSE The({IF checked.code # "none" THEN checked
              ELSE The({IF picked.code # "none" THEN picked
                        ELSE AbsorbPlanned(picked.g, planned, i + 1, fail) :
                           picked \in {CherryPickOne(checked.g, planned[i].commit,
                                                     "absorb-cherry-pick-failed",
                                                     PickFailure(fail, i))}}) :
                 checked \in {CheckoutBranch(g, RefBranch(planned[i].target_parent), fail)}})

ResetToMergeCommitSkipped(absorbed, branch, merge_commit, fail) == absorbed

\* if merge_commit is not None: checkout the workspace branch, reset --hard
ResetToMergeCommit(absorbed, branch, merge_commit, fail) ==
    IF absorbed.code # "none" \/ merge_commit = None THEN absorbed
    ELSE The({IF checked.code # "none" THEN checked
              ELSE ResetHard(checked.g, merge_commit.v, "absorb-reset-failed", fail) :
                 checked \in {CheckoutBranch(absorbed.g, branch, fail)}})

\* the finally clause of absorb_octopus_workspace
RestoreBranchAfterAbsorb(tried, original_branch, fail) ==
    IF original_branch # None /\ original_branch # tried.g.current
    THEN The({IF restored.code # "none" THEN restored ELSE [restored EXCEPT !.code = tried.code] :
                 restored \in {CheckoutBranch(tried.g, original_branch.v, fail)}})
    ELSE tried

\* absorb_octopus_workspace, from "original_branch = _current_branch" on
AbsorbMoving(g, branch, merge_commit, planned, fail) ==
    The({IF moved.code # "none" THEN RaisesMoving(moved, << >>, planned)
         ELSE Returns(moved.g, << >>, planned) :
            moved \in {RestoreBranchAfterAbsorb(
                          ResetToMergeCommit(AbsorbPlanned(g, planned, 1, fail), branch,
                                             merge_commit, fail),
                          g.current, fail)}})

AbsorbSplitPlanningAsItGoes(g, workspace, history, target_parent, interactive, chooser, content, fail) ==
    IF history.post_merge_commits = << >> THEN Returns(g, << >>, << >>)
    ELSE The({The({IF plan.code # "none"
                   THEN Raises(Fail(IF first.code # "none" THEN g
                                    ELSE AbsorbPlanned(g, first.planned, 1, <<"none">>).g,
                                    plan.code))
                   ELSE AbsorbMoving(g, workspace.branch[1], history.merge_commit,
                                     plan.planned, fail) :
                      plan \in {PlanAbsorbTargets(history.post_merge_commits, 1,
                                                  workspace.octopus_parents, target_parent,
                                                  interactive, chooser, content)}}) :
                 first \in {PlanAbsorbTargets(SubSeq(history.post_merge_commits, 1, 1), 1,
                                              workspace.octopus_parents, target_parent,
                                              interactive, chooser, content)}})

AbsorbSplitWithoutEarlyReturn(g, workspace, history, target_parent, interactive, chooser, content, fail) ==
    The({IF plan.code # "none" THEN Raises(Fail(g, plan.code))
         ELSE AbsorbMoving(g, workspace.branch[1], history.merge_commit, plan.planned, fail) :
            plan \in {PlanAbsorbTargets(history.post_merge_commits, 1,
                                        workspace.octopus_parents, target_parent,
                                        interactive, chooser, content)}})

\* absorb_octopus_workspace, from "merge_commit, post_merge_commits = ..." on
AbsorbSplit(g, workspace, history, target_parent, interactive, chooser, content, fail) ==
    IF history.post_merge_commits = << >> THEN Returns(g, << >>, << >>)
    ELSE The({IF plan.code # "none" THEN Raises(Fail(g, plan.code))
              ELSE AbsorbMoving(g, workspace.branch[1], history.merge_commit, plan.planned,
                                fail) :
                 plan \in {PlanAbsorbTargets(history.post_merge_commits, 1,
                                             workspace.octopus_parents, target_parent,
                                             interactive, chooser, content)}})

\* absorb_octopus_workspace(repo_root, workspace, target_parent, interactive,
\* choose_target)
AbsorbOctopusWorkspace(g, workspace, target_parent, interactive, chooser, content, fail) ==
    IF workspace.kind # S("octopus") THEN Raises(Fail(g, "invalid-workspace-kind"))
    ELSE IF Len(workspace.octopus_parents) < 2
    THEN Raises(Fail(g, "invalid-octopus-parents"))
    ELSE IF /\ target_parent # None
            /\ \A i \in DOMAIN workspace.octopus_parents :
                  workspace.octopus_parents[i] # target_parent.v
    THEN Raises(Fail(g, "invalid-absorb-target"))
    ELSE IF interactive /\ chooser = None
    THEN Raises(Fail(g, "interactive-selection-unavailable"))
    ELSE IF ~LocalBranchExists(g, workspace.branch[1]) THEN Raises(Fail(g, "branch-missing"))
    ELSE The({IF unique.code # "none" THEN Raises(Fail(g, unique.code))
              ELSE AbsorbSplit(g, workspace, SplitOctopusHistory(unique.commits), target_parent,
                               interactive, chooser, content, fail) :
                 unique \in {OctopusUniqueCommits(g, workspace.branch[1],
                                                  workspace.octopus_parents)}})

\* ------------------------------- update and absorb as commands on a history

RootCommit == Commit(<<"init">>, << >>)

\* the commit that follows `commit` on a branch
Advance(commit, message) == Commit(<<message>>, <<commit>>)

\* The tips of main and release when the octopus workspace was created: the
\* two diverged, main behind release, or release behind main.
ParentTipsAtCreation ==
    { [main |-> Advance(RootCommit, "main 1"), release |-> Advance(RootCommit, "release 1")],
      [main |-> RootCommit, release |-> Advance(RootCommit, "release 1")],
      [main |-> Advance(RootCommit, "main 1"), release |-> RootCommit] }

\* the branch create_octopus_workspace leaves for the parents main, release
CreatedOctopus(tips) ==
    MergeNoFf(RepoState([r \in {HeadRef(OctopusBranch), HeadRef("release")} |->
                            IF r = HeadRef("release") THEN tips.release ELSE tips.main],
                        {}, {}, None, << >>),
              OctopusBranch, RepoRoot, <<HeadRef("release")>>,
              <<"Create octopus workspace", OctopusBranch>>, "octopus-merge-failed",
              <<"none">>).g.refs[HeadRef(OctopusBranch)]

PostMergeMessages == <<"post-merge 1", "post-merge 2", "post-merge 3", "post-merge 4">>

\* k commits made on the commit
RECURSIVE WithPostMerge(_, _)
WithPostMerge(commit, k) ==
    IF k = 0 THEN commit ELSE Advance(WithPostMerge(commit, k - 1), PostMergeMessages[k])

\* The repository: main, release, the octopus workspace branch with k commits
\* made on it, a standard workspace branch made from main; main may have a
\* commit since; the remote may have been fetched from.
HistoryRefs(tips, k, main_advanced, fetched) ==
    LET local == (HeadRef("main") :> IF main_advanced THEN Advance(tips.main, "main 2")
                                                       ELSE tips.main)
                 @@ (HeadRef("release") :> tips.release)
                 @@ (HeadRef(OctopusBranch) :> WithPostMerge(CreatedOctopus(tips), k))
                 @@ (HeadRef(StandardBranch) :> Advance(tips.main, "feature 1"))
    IN  IF fetched
        THEN local @@ (RemoteRef(Remote, "main") :> tips.main)
                   @@ (RemoteRef(Remote, "release") :> tips.release)
        ELSE local

\* The repository after an update of the octopus workspace that rebuilt it on
\* the remote-tracking refs, the remote having a commit more on main and on
\* release than the local branches, and k commits made on the workspace since.
UpdatedRefs(tips, k) ==
    LET remote_main == Commit(<<"remote", "main">>, <<tips.main>>)
        remote_release == Commit(<<"remote", "release">>, <<tips.release>>)
    IN  (HeadRef("main") :> tips.main)
        @@ (HeadRef("release") :> tips.release)
        @@ (HeadRef(OctopusBranch) :>
               WithPostMerge(Commit(<<"Rebuild octopus workspace", OctopusBranch>>,
                                    <<remote_main, remote_release>>), k))
        @@ (HeadRef(StandardBranch) :> Advance(tips.main, "feature 1"))
        @@ (RemoteRef(Remote, "main") :> remote_main)
        @@ (RemoteRef(Remote, "release") :> remote_release)

HistoryStartRefs ==
    {HistoryRefs(tips, k, main_advanced, fetched) :
        tips \in ParentTipsAtCreation, k \in 0..MaxPostMerge,
        main_advanced \in BOOLEAN, fetched \in BOOLEAN}
    \cup {UpdatedRefs(tips, k) : tips \in ParentTipsAtCreation, k \in 0..MaxPostMerge}

\* What the remote has of a branch b whose local tip is `tip`: nothing, the
\* tip, a commit more, or a commit less where the tip has not been pushed.
RemoteTips(b, tip) ==
    {<< >>, b :> tip, b :> Commit(<<"remote", b>>, <<tip>>)}
        \cup {b :> tip.parents[i] : i \in DOMAIN tip.parents}

\* what the remote has of the parents of the octopus workspace
RemoteParents(g) ==
    {m @@ r : m \in RemoteTips("main", g.refs[HeadRef("main")]),
              r \in RemoteTips("release", g.refs[HeadRef("release")])}

\* what the remote has of the standard workspace: nothing, the branch, a
\* commit more, or another commit made on what the branch was made from
RemoteStandard(g) ==
    RemoteTips(StandardBranch, g.refs[HeadRef(StandardBranch)])
        \cup {StandardBranch :> Commit(<<"remote", StandardBranch>>,
                                       g.refs[HeadRef(StandardBranch)].parents)}

HistoryTimestamp == <<"2026-03-01T00:00:00", "Z">>

\* the WorkspaceMetadata handed to update and absorb
DeclaredParents ==
    { <<S("main"), S("release")>>, <<S("release"), S("main")>>,
      <<S("main"), S("hotfix")>>, <<S("main")>> }

Remotes == {None, Some(S(Remote))}

HistoryWorkspaces ==
    {OctopusWorkspace(OctopusBranch, RepoRoot, tracked_remote, parents, HistoryTimestamp) :
        tracked_remote \in Remotes, parents \in DeclaredParents}
    \cup {StandardWorkspace(StandardBranch, RepoRoot, tracked_remote, "main", HistoryTimestamp) :
             tracked_remote \in Remotes}

\* the git commands that can be made to fail
HistoryFailures ==
    { <<"none">>, <<"fetch">>, <<"checkout", OctopusBranch>>, <<"checkout", "main">>,
      <<"reset">>, <<"merge", OctopusBranch>>, <<"cherry-pick", 1>>, <<"cherry-pick", 2>>,
      <<"cherry-pick-refused", 1>>, <<"cherry-pick-refused", 2>>, <<"rebase">> }

\* the fields of cmd of update and absorb
HistoryCommand(name, workspace, default_remote, remote, target_parent, fail, out) ==
    [name |-> name, workspace |-> workspace, default_remote |-> default_remote,
     remote |-> remote, target_parent |-> target_parent, fail |-> fail,
     status |-> IF out.code = "none" THEN "returned" ELSE "raised",
     code |-> out.code, log |-> out.g.log, before |-> Now,
     parent_refs |-> out.parent_refs, commits |-> out.commits, first |-> << >>]

\* update_octopus_workspace(repo_root, workspace, default_remote)
CmdUpdateOctopus(workspace, default_remote, remote, fail) ==
    /\ commands_left > 0
    /\ \E out \in {UpdateOctopusWorkspace(Now, workspace, default_remote, remote, fail)} :
          Ran(out, HistoryCommand("update_octopus_workspace", workspace, default_remote,
                                  remote, None, fail, out))

\* update_non_octopus_workspace(repo_root, workspace, default_remote)
CmdUpdateNonOctopus(workspace, default_remote, remote, fail) ==
    /\ commands_left > 0
    /\ \E out \in {UpdateNonOctopusWorkspace(Now, workspace, default_remote, remote, fail)} :
          Ran(out, HistoryCommand("update_non_octopus_workspace", workspace, default_remote,
                                  remote, None, fail, out))

\* the paths the post-merge commits change and the parents have
AbsorbContents ==
    { [changed_files |-> {"a.txt"}, exists |-> (S("main") :> {} @@ S("release") :> {"a.txt"}
                                                @@ S("hotfix") :> {})],
      [changed_files |-> {"a.txt"}, exists |-> (S("main") :> {"a.txt"}
                                                @@ S("release") :> {"a.txt"}
                                                @@ S("hotfix") :> {})] }

\* what the callback of an interactive absorb answers, commit by commit
Choosers ==
    { None, Some(<<S("main"), S("release")>>), Some(<<S("release"), S("hotfix")>>) }

AbsorbTargets == {None, Some(S("main")), Some(S("release")), Some(S("hotfix"))}

\* absorb_octopus_workspace(repo_root, workspace, target_parent, interactive,
\* choose_target)
CmdAbsorb(workspace, target_parent, interactive, chooser, content, fail) ==
    /\ commands_left > 0
    /\ \E out \in {AbsorbOctopusWorkspace(Now, workspace, target_parent, interactive, chooser,
                                          content, fail)} :
          Ran(out, [HistoryCommand("absorb_octopus_workspace", workspace, None, << >>,
                                   target_parent, fail, out)
                       EXCEPT !.remote = [interactive |-> interactive, chooser |-> chooser,
                                          content |-> content]])

\* absorb_octopus_workspace called again, with the arguments of the absorb
\* that has just returned
CmdAbsorbAgain ==
    /\ cmd.name = "absorb_octopus_workspace"
    /\ cmd.status = "returned"
    /\ \E out \in {AbsorbOctopusWorkspace(Now, cmd.workspace, cmd.target_parent,
                                          cmd.remote.interactive, cmd.remote.chooser,
                                          cmd.remote.content, <<"none">>)} :
          Ran(out, [HistoryCommand("absorb_octopus_workspace again", cmd.workspace, None,
                                   cmd.remote, cmd.target_parent, <<"none">>, out)
                       EXCEPT !.first = cmd])

\* the workspace of the octopus branch as create_octopus_workspace records it
\* for a repo whose default remote is the remote
NominalOctopus ==
    OctopusWorkspace(OctopusBranch, RepoRoot, Some(S(Remote)), <<S("main"), S("release")>>,
                     HistoryTimestamp)

NominalStandard ==
    StandardWorkspace(StandardBranch, RepoRoot, Some(S(Remote)), "main", HistoryTimestamp)

HistoryInit ==
    /\ TxnIdle
    /\ original_refs = << >>
    /\ original_metadata = EmptyMetadata
    /\ ProcsIdle
    /\ RoundTripIdle
    /\ CacheIdle
    /\ cmd = NoCommand
    /\ refs \in HistoryStartRefs
    /\ dirty = {}
    /\ current \in {None, Some("main"), Some(OctopusBranch)}
    /\ files = << >>
    /\ commands_left = 1

\* Every workspace is updated with and without a default remote; git commands
\* are made to fail for the workspaces as the commands that create them
\* record them.
HistoryNext ==
    \/ \E workspace \in HistoryWorkspaces, default_remote \in Remotes :
          \E remote \in IF PyOr(workspace.tracked_remote, default_remote) = None
                         THEN {<< >>} ELSE RemoteParents(Now),
             fail \in IF workspace = NominalOctopus /\ default_remote = None
                      THEN HistoryFailures \ {<<"rebase">>} ELSE {<<"none">>} :
              CmdUpdateOctopus(workspace, default_remote, remote, fail)
    \/ \E workspace \in {w \in HistoryWorkspaces : w.kind = S("standard")} \cup {NominalOctopus},
          default_remote \in Remotes :
          \E remote \in IF PyOr(workspace.tracked_remote, default_remote) = None
                         THEN {<< >>} ELSE RemoteStandard(Now),
             fail \in IF workspace = NominalStandard /\ default_remote = None
                      THEN {<<"none">>, <<"fetch">>, <<"rebase">>} ELSE {<<"none">>} :
              CmdUpdateNonOctopus(workspace, default_remote, remote, fail)
    \/ \E workspace \in {w \in HistoryWorkspaces : w.tracked_remote # None},
          target_parent \in AbsorbTargets, interactive \in BOOLEAN :
          \E chooser \in IF interactive THEN Choosers ELSE {None},
             content \in IF target_parent = None /\ ~interactive
                         THEN AbsorbContents ELSE {CHOOSE c \in AbsorbContents : TRUE},
             fail \in IF workspace = NominalOctopus /\ target_parent = Some(S("release"))
                         /\ ~interactive
                      THEN (HistoryFailures \cup {<<"checkout", "release">>})
                           \ {<<"fetch">>, <<"rebase">>, <<"merge", OctopusBranch>>}
                      ELSE {<<"none">>} :
              CmdAbsorb(workspace, target_parent, interactive, chooser, content, fail)
    \/ CmdAbsorbAgain

HistorySpec == HistoryInit /\ [][HistoryNext]_vars

\* ------------------------------------ _heuristic_target_parent on its own

\* the paths in the order they are listed in
PathList == <<"a.txt", "b.txt", "c.txt", "d.txt", "e.txt">>

\* the first and the last paths of the list, by number
Segments ==
    {{PathList[i] : i \in 1..n} : n \in 0..Len(PathList)}
        \cup {{PathList[i] : i \in n..Len(PathList)} : n \in 2..Len(PathList)}

HeuristicParents ==
    { <<S("main"), S("release")>>, <<S("release"), S("main")>>,
      <<S("main"), S("release"), S("hotfix")>>, <<S("main"), S("main")>> }

\* the paths that exist at main, at release and at hotfix
HeuristicExists(parents) ==
    {(S("main") :> at_main) @@ (S("release") :> at_release) @@ (S("hotfix") :> at_hotfix) :
        at_main \in SUBSET Paths, at_release \in Segments,
        at_hotfix \in IF Len(parents) = 3 THEN {{}, {"a.txt"}, Paths} ELSE {{}}}

HeuristicInit ==
    /\ TxnIdle
    /\ refs = << >>
    /\ original_refs = << >>
    /\ original_metadata = EmptyMetadata
    /\ ProcsIdle
    /\ RoundTripIdle
    /\ CacheIdle
    /\ dirty = {}
    /\ current = None
    /\ files = << >>
    /\ commands_left = 1
    /\ \E changed_files \in SUBSET Paths, parents \in HeuristicParents :
          \E exists \in HeuristicExists(parents) :
              cmd = [name |-> "input", status |-> "none", changed_files |-> changed_files,
                     exists |-> exists, parents |-> parents]

\* _heuristic_target_parent(repo_root, commit, parents), of a commit that
\* changes cmd.changed_files in a repository where cmd.exists
CmdHeuristicTargetParent ==
    /\ commands_left > 0
    /\ commands_left' = commands_left - 1
    /\ \E out \in {HeuristicTargetParent(cmd.changed_files, cmd.exists, cmd.parents)} :
          cmd' = [cmd EXCEPT !.name = "_heuristic_target_parent",
                             !.status = IF out.code = "none" THEN "returned" ELSE "raised"]
                     @@ [code |-> out.code, target |-> out.target]
    /\ UNCHANGED <<txnVars, gitVars, files, procVars, rtVars, cacheVars, dirty, current>>

HeuristicNext == CmdHeuristicTargetParent

HeuristicSpec == HeuristicInit /\ [][HeuristicNext]_vars

\* ------------------------------------------------------- orchestrator.run

MUTATING_COMMANDS == {"new", "delete", "prune", "update", "absorb"}

IN_PROGRESS_STATE_MARKERS ==
    <<"MERGE_HEAD", "CHERRY_PICK_HEAD", "REVERT_HEAD", "REBASE_HEAD", "rebase-apply",
      "rebase-merge">>

\* a directory that is in no repository
Outside == "X"

AlwaysRequiresAutoTracking(command_name) == TRUE

\* command_requires_auto_tracking(command_name)
CommandRequiresAutoTracking(command_name) == command_name \in MUTATING_COMMANDS

\* in_git_repo(cwd): git rev-parse --show-toplevel succeeds
InGitRepo(cwd) == cwd # Outside

\* in_progress_operation(cwd): the first marker, in the order of the tuple,
\* that exists in the git dir of cwd; markers are the files that exist there
InProgressOperation(cwd, markers) ==
    IF ~InGitRepo(cwd) THEN None
    ELSE IF \E i \in DOMAIN IN_PROGRESS_STATE_MARKERS : IN_PROGRESS_STATE_MARKERS[i] \in markers
    THEN Some(IN_PROGRESS_STATE_MARKERS[
                  CHOOSE i \in DOMAIN IN_PROGRESS_STATE_MARKERS :
                      /\ IN_PROGRESS_STATE_MARKERS[i] \in markers
                      /\ \A j \in 1..(i - 1) : IN_PROGRESS_STATE_MARKERS[j] \notin markers])
    ELSE None

\* how run ends: the repository, the AppError's code and details, the calls
\* of ensure_repo_tracked and what is printed
RunEnds(out, details, ensure_calls, printed) ==
    [g |-> out.g, code |-> out.code, details |-> details, ensure_calls |-> ensure_calls,
     printed |-> printed]

\* run, from "if opts.destination" on
RunPrints(destination) == IF destination THEN "effective_cwd" ELSE "greeting"

\* run(opts, cwd, metadata_manager, command_name), with a MetadataManager as
\* the tracker
Run(g, destination, cwd, markers, command_name, fail) ==
    IF ~InGitRepo(cwd) THEN RunEnds(Fail(g, "not-in-git-repo"), None, << >>, "")
    ELSE IF InProgressOperation(cwd, markers) # None
    THEN RunEnds(Fail(g, "git-operation-in-progress"), InProgressOperation(cwd, markers),
                 << >>, "")
    ELSE IF CommandRequiresAutoTracking(command_name)
    THEN The({RunEnds(ensured, None, <<cwd>>,
                      IF ensured.code = "none" THEN RunPrints(destination) ELSE "") :
                 ensured \in {EnsureRepoTracked(g, cwd, fail)}})
    ELSE RunEnds(Done(g), None, << >>, RunPrints(destination))

\* the command names run is called with: the mutating ones and three others
CommandNames == MUTATING_COMMANDS \cup {"greet", "list", "status"}

\* the files that exist in the git dir
MarkerSets ==
    {{}} \cup {{IN_PROGRESS_STATE_MARKERS[i]} : i \in DOMAIN IN_PROGRESS_STATE_MARKERS}
         \cup {{"CHERRY_PICK_HEAD", "MERGE_HEAD"}, {"rebase-merge", "REBASE_HEAD"}}

\* orchestrator.run as a command
CmdRun(destination, cwd, markers, command_name, fail) ==
    /\ commands_left > 0
    /\ \E out \in {Run(Now, destination, cwd, markers, command_name, fail)} :
          Ran(out, [name |-> "run", status |-> IF out.code = "none" THEN "returned" ELSE "raised",
                    code |-> out.code, details |-> out.details,
                    ensure_calls |-> out.ensure_calls, printed |-> out.printed,
                    log |-> out.g.log, before |-> Now, destination |-> destination,
                    cwd |-> cwd, markers |-> markers, command_name |-> command_name,
                    fail |-> fail])

\* the metadata file: none, or one with any of the workspaces tracked
RunInit ==
    /\ TxnIdle
    /\ original_refs = << >>
    /\ original_metadata = EmptyMetadata
    /\ ProcsIdle
    /\ RoundTripIdle
    /\ CacheIdle
    /\ cmd = NoCommand
    /\ refs = FreshState.refs
    /\ dirty = {}
    /\ current = FreshState.current
    /\ files \in {<< >>} \cup CmdStartFiles
    /\ commands_left = 1

RunNext ==
    \E destination \in BOOLEAN, cwd \in {"A", "C", Outside}, markers \in MarkerSets,
       command_name \in CommandNames, fail \in {<<"none">>, <<"write">>} :
        CmdRun(destination, cwd, markers, command_name, fail)

RunSpec == RunInit /\ [][RunNext]_vars

\* ---------------------------------------------------------------------------
\* Claims on the commands
\* ---------------------------------------------------------------------------

\* the value the metadata file of g holds
MetadataOf(g) == ReadWhole(g.files, 1).value

\* the workspace entry of the branch in the repo keyed k of m, as a sequence:
\* empty where the repo or the workspace is not tracked
EntryOf(m, k, branch) ==
    IF /\ k \in DOMAIN m.repos
       /\ S(branch) \in DOMAIN m.repos[k].workspaces
    THEN <<m.repos[k].workspaces[S(branch)]>>
    ELSE << >>

\* the key of the repo a prune run from cwd works on
PrunedRepoKey(m, cwd) ==
    IF RepoKey(cwd) \in DOMAIN m.repos THEN RepoKey(cwd) ELSE RepoKey("A")

\* branch, worktree and metadata entries of the branch are as the last command
\* found them: was and is are the metadata values before and after it
Untouched(was, is, branch) ==
    /\ LocalBranchExists(Now, branch) = LocalBranchExists(cmd.before, branch)
    /\ LocalBranchExists(Now, branch) =>
          refs[HeadRef(branch)] = cmd.before.refs[HeadRef(branch)]
    /\ (DeriveWorkspacePath(branch) \in worktrees)
          = (DeriveWorkspacePath(branch) \in cmd.before.worktrees)
    /\ (DeriveWorkspacePath(branch) \in dirty)
          = (DeriveWorkspacePath(branch) \in cmd.before.dirty)
    /\ \A k \in DOMAIN was.repos \cup DOMAIN is.repos :
          EntryOf(is, k, branch) = EntryOf(was, k, branch)

\* the decision the last prune took for the branch, as a sequence
DecisionFor(branch) ==
    SelectSeq(cmd.decisions, LAMBDA d : d.branch = branch)

\* the last prune found its repo in the metadata value was
PruneDecided(was) == PrunedRepoKey(was, cmd.cwd) \in DOMAIN was.repos

\* C16: a tracked workspace is a prune candidate exactly when its local branch
\* is missing (reason missing-local-branch, whatever the PR state) or its
\* branch exists and the PR state is merged (reason merged-pr); a workspace
\* whose branch exists and whose PR state is not merged keeps its branch, its
\* worktree and its metadata entry through prune, with or without force.
C16_PruneEligibility ==
    cmd.name = "prune" =>
        \A was \in {MetadataOf(cmd.before)}, is \in {MetadataOf(Now)}, b \in WsBranchSet :
            LET exists == LocalBranchExists(cmd.before, b)
                tracked == EntryOf(was, PrunedRepoKey(was, cmd.cwd), b) # << >>
            IN  PruneDecided(was) =>
                   /\ (tracked /\ ~exists) =>
                         /\ Len(DecisionFor(b)) = 1
                         /\ DecisionFor(b)[1].reason = "missing-local-branch"
                   /\ (tracked /\ exists /\ cmd.statuses[b] = "merged") =>
                         /\ Len(DecisionFor(b)) = 1
                         /\ DecisionFor(b)[1].reason = "merged-pr"
                   /\ (~tracked \/ (exists /\ cmd.statuses[b] # "merged")) =>
                         /\ DecisionFor(b) = << >>
                         /\ Untouched(was, is, b)

\* a forced prune has removed the workspace whose branch is missing and kept
\* the one whose branch exists and whose PR is closed, its worktree dirty
C16_Witness ==
    /\ cmd.name = "prune" /\ cmd.status = "returned"
    /\ cmd.force /\ ~cmd.dry_run
    /\ cmd.statuses = [b \in WsBranchSet |-> IF b = "alpha" THEN "closed" ELSE "open"]
    /\ EntryOf(MetadataOf(cmd.before), RepoKey("A"), "alpha") # << >>
    /\ EntryOf(MetadataOf(cmd.before), RepoKey("A"), "beta") # << >>
    /\ EntryOf(MetadataOf(Now), RepoKey("A"), "alpha") # << >>
    /\ EntryOf(MetadataOf(Now), RepoKey("A"), "beta") = << >>
    /\ DeriveWorkspacePath("alpha") \in dirty
    /\ LocalBranchExists(Now, "alpha")


\* the branch was, when the last command began, the current branch of its cwd
\* or the branch of an existing worktree with uncommitted changes
CurrentOrDirty(branch) ==
    \/ CurrentBranch(cmd.before, cmd.cwd) = Some(branch)
    \/ /\ DeriveWorkspacePath(branch) \in cmd.before.worktrees
       /\ DeriveWorkspacePath(branch) \in cmd.before.dirty

\* branch, worktree and metadata entry of the branch are gone
Removed(was, is, branch) ==
    /\ ~LocalBranchExists(Now, branch)
    /\ DeriveWorkspacePath(branch) \notin worktrees
    /\ EntryOf(is, PrunedRepoKey(was, cmd.cwd), branch) = << >>

\* C17: a prune candidate is blocked exactly when prune runs without force and
\* the candidate is the current branch or its existing worktree has
\* uncommitted changes. A blocked candidate keeps its branch, its worktree and
\* its metadata entry; when prune returns, every candidate that is not blocked
\* has lost all three.
C17_PruneBlocking ==
    (cmd.name = "prune" /\ ~cmd.dry_run) =>
        \A was \in {MetadataOf(cmd.before)}, is \in {MetadataOf(Now)},
           i \in DOMAIN cmd.decisions :
            LET d == cmd.decisions[i]
            IN  /\ (d.block_reason # None) <=> (~cmd.force /\ CurrentOrDirty(d.branch))
                /\ d.block_reason # None => Untouched(was, is, d.branch)
                /\ (d.block_reason = None /\ cmd.status = "returned") =>
                      Removed(was, is, d.branch)

\* a prune without force, run from the worktree of a merged branch, has
\* skipped that branch and removed the other merged one
C17_Witness ==
    /\ cmd.name = "prune" /\ cmd.status = "returned"
    /\ ~cmd.force /\ ~cmd.dry_run
    /\ cmd.cwd = "alpha"
    /\ Len(cmd.decisions) = 2
    /\ cmd.decisions[1].block_reason = Some("current-workspace")
    /\ cmd.decisions[2].block_reason = None
    /\ DeriveWorkspacePath("beta") \in cmd.before.worktrees
    /\ LocalBranchExists(Now, "alpha")
    /\ ~LocalBranchExists(Now, "beta")
    /\ EntryOf(MetadataOf(Now), RepoKey("A"), "alpha") # << >>
    /\ EntryOf(MetadataOf(Now), RepoKey("A"), "beta") = << >>


\* a workspace is still tracked while the branch it had is deleted
DeletedButTracked ==
    \E b \in WsBranchSet :
        /\ LocalBranchExists(cmd.before, b)
        /\ ~LocalBranchExists(Now, b)
        /\ EntryOf(MetadataOf(Now), RepoKey("A"), b) # << >>

\* C18: when a worktree removal or a branch deletion of a live prune fails,
\* the branch refs and the metadata file are as they were before the prune,
\* and no workspace is left deleted in git but still tracked.
C18_PruneRollsBack ==
    (/\ cmd.name = "prune"
     /\ cmd.status = "raised"
     /\ cmd.code \in {"worktree-delete-failed", "branch-delete-failed"}) =>
        /\ refs = cmd.before.refs
        /\ files = cmd.before.files
        /\ ~DeletedButTracked

\* C19: when the worktree removal, the branch deletion or the metadata write
\* of delete fails after an earlier one succeeded, the branch ref and the
\* metadata file are as they were before the delete: the workspace is not
\* left tracked with its branch deleted.
C19_DeleteRollsBack ==
    (/\ cmd.name = "delete"
     /\ cmd.status = "raised"
     /\ cmd.code \in {"worktree-delete-failed", "branch-delete-failed", "os-error"}) =>
        /\ refs = cmd.before.refs
        /\ files = cmd.before.files
        /\ ~DeletedButTracked


\* the codes of the AppErrors delete_workspace raises before it changes anything
DeletePreconditionCodes ==
    {"repo-not-tracked", "workspace-not-tracked", "delete-blocked", "workspace-dirty"}

KeysMatch(m) ==
    \A k \in DOMAIN m.repos :
        /\ k = PathStr(m.repos[k].git_dir)
        /\ m.repos[k].git_dir = Resolve(m.repos[k].git_dir)
        /\ \A b \in DOMAIN m.repos[k].workspaces : b = m.repos[k].workspaces[b].branch

\* the value the text of the metadata file stands for, not validated
Persisted == ParseWorkspacesMetadata(JsonLoads(files[MetaName]).doc)

\* C11: after write, ensure_repo_tracked, create, delete and prune commands
\* that returned, every key of repos in the metadata file is the string of the
\* repo's git_dir, itself its canonical realpath, and every key of workspaces
\* is the workspace's branch; write raises for a value that is not so and
\* leaves the file as it was.
C11_PersistedKeysMatch ==
    /\ (cmd.status # "raised" /\ Exists(files, MetaName)) => KeysMatch(Persisted)
    /\ (cmd.name = "write" /\ ~KeysMatch(cmd.value)) =>
          /\ cmd.status = "raised"
          /\ files = cmd.before.files

\* a workspace created in a fresh repository has been deleted again, and the
\* file holds the repo under its key with no workspace
C11_Witness ==
    /\ cmd.name = "delete" /\ cmd.status = "returned" /\ ~cmd.dry_run
    /\ EntryOf(MetadataOf(cmd.before), RepoKey("A"), cmd.branch) # << >>
    /\ EntryOf(MetadataOf(cmd.before), RepoKey("A"), cmd.branch)[1].created_at
           = CreateTimestamp
    /\ DOMAIN Persisted.repos = {RepoKey("A")}
    /\ Persisted.repos[RepoKey("A")].workspaces = << >>


ResolvedBase ==
    IF cmd.base_ref # None THEN cmd.base_ref ELSE CurrentBranch(cmd.before, cmd.cwd)

\* the workspaces the metadata value m tracks for the repo keyed k
WorkspacesIn(m, k) == IF k \in DOMAIN m.repos THEN m.repos[k].workspaces ELSE << >>

\* C23: a create_standard_workspace that returns has created the branch at
\* the tip of the resolved base, added a worktree for it at the derived path,
\* which it returns, and persisted a workspace record with kind standard,
\* base_ref the resolved base, no octopus_parents and worktree_path the
\* returned path; a create for a branch that exists already fails with
\* branch-already-exists and adds no worktree and no workspace record.
C23_CreateStandard ==
    cmd.name = "create" =>
        \A is \in {MetadataOf(Now)}, was \in {MetadataOf(cmd.before)} :
            /\ cmd.status = "returned" =>
                  /\ ~LocalBranchExists(cmd.before, cmd.branch)
                  /\ LocalBranchExists(Now, cmd.branch)
                  /\ ResolvedBase # None
                  /\ LocalBranchExists(cmd.before, ResolvedBase.v)
                  /\ refs[HeadRef(cmd.branch)] = cmd.before.refs[HeadRef(ResolvedBase.v)]
                  /\ cmd.returns = Some(DeriveWorkspacePath(cmd.branch))
                  /\ worktrees = cmd.before.worktrees \cup {cmd.returns.v}
                  /\ EntryOf(is, RepoKey(cmd.cwd), cmd.branch) # << >>
                  /\ LET record == EntryOf(is, RepoKey(cmd.cwd), cmd.branch)[1]
                     IN  /\ record.branch = S(cmd.branch)
                         /\ record.kind = S("standard")
                         /\ record.base_ref = S(ResolvedBase.v)
                         /\ record.octopus_parents = << >>
                         /\ record.worktree_path = cmd.returns.v
            /\ LocalBranchExists(cmd.before, cmd.branch) =>
                  /\ cmd.status = "raised"
                  /\ cmd.fail # <<"write">> => cmd.code = "branch-already-exists"
                  /\ worktrees = cmd.before.worktrees
                  /\ refs = cmd.before.refs
                  /\ WorkspacesIn(is, RepoKey(cmd.cwd)) = WorkspacesIn(was, RepoKey(cmd.cwd))

\* new alpha has been run a second time: the first run created the branch,
\* the worktree and the record, the second one failed
C23_Witness ==
    /\ cmd.name = "create"
    /\ cmd.branch = "alpha"
    /\ cmd.code = "branch-already-exists"
    /\ DeriveWorkspacePath("alpha") \in worktrees
    /\ refs[HeadRef("alpha")] = refs[HeadRef("main")]
    /\ EntryOf(MetadataOf(Now), RepoKey("A"), "alpha") # << >>
    /\ EntryOf(MetadataOf(Now), RepoKey("A"), "alpha")[1].created_at = CreateTimestamp


\* C24: standard workspace creation is all or nothing: where the worktree add
\* or the final metadata write fails after the branch has been created, the
\* branch and the worktree are rolled back, so a create that raises leaves
\* the branch refs, the worktrees and the workspaces map as they were before.
C24_CreateRollsBack ==
    (cmd.name = "create" /\ cmd.status = "raised") =>
        /\ refs = cmd.before.refs
        /\ worktrees = cmd.before.worktrees
        /\ WorkspacesIn(MetadataOf(Now), RepoKey(cmd.cwd))
               = WorkspacesIn(MetadataOf(cmd.before), RepoKey(cmd.cwd))


\* the commands that mutate the repository, and those of them that begin
\* with ensure_repo_tracked
MutatingCommandNames == {"create", "create-octopus", "delete", "prune"}
CreatingCommandNames == {"create", "create-octopus"}

\* no mutation of git follows a write of the metadata file in the log
NoGitAfterWrite(log) ==
    \A i, j \in DOMAIN log :
        (i < j /\ log[i] = MetadataWrite) => log[j] \notin GitMutations

\* C22 as stated: within each mutating command (standard create, octopus
\* create, delete, prune) every write of the metadata file happens after all
\* of the command's git mutations; no git mutation follows a metadata write.
C22_EveryWriteAfterGit ==
    cmd.name \in MutatingCommandNames => NoGitAfterWrite(cmd.log)

\* the mutations of the last command after the write of ensure_repo_tracked
\* that create commands begin with
AfterEnsure(name, log) ==
    IF name \in CreatingCommandNames /\ log # << >> THEN Tail(log) ELSE log

\* C22, amended: the write that records or removes workspaces is the last
\* mutation of each mutating command, after all of its git mutations, so a
\* crash before it leaves git state complete and the workspace merely
\* untracked. The create commands write the metadata file once more, first
\* of all: ensure_repo_tracked runs before their git mutations.
C22_WorkspaceWriteLast ==
    cmd.name \in MutatingCommandNames =>
        /\ (cmd.name \in CreatingCommandNames /\ cmd.log # << >>) =>
               cmd.log[1] = MetadataWrite
        /\ \A i \in DOMAIN AfterEnsure(cmd.name, cmd.log) :
               AfterEnsure(cmd.name, cmd.log)[i] = MetadataWrite =>
                   i = Len(AfterEnsure(cmd.name, cmd.log))
        /\ (cmd.status = "returned" /\ \E i \in DOMAIN cmd.log : cmd.log[i] \in GitMutations) =>
               cmd.log[Len(cmd.log)] = MetadataWrite

\* an octopus workspace has been created: ensure_repo_tracked wrote, then
\* the branch, the worktree and the merge commit were made, then the
\* workspace was recorded
C22_Witness ==
    /\ cmd.name = "create-octopus"
    /\ cmd.status = "returned"
    /\ cmd.log = <<MetadataWrite, "branch-create", "worktree-add", "merge", MetadataWrite>>


\* the tips of the refs in the repository g, in the order of the refs
ParentTips(g, parent_refs) ==
    [i \in DOMAIN parent_refs |-> g.refs[HeadRef(RefBranch(parent_refs[i]))]]

\* no commit of the sequence after the first is another one of it or
\* reachable from another one
Divergent(tips) ==
    \A i, j \in DOMAIN tips : (i > 1 /\ i # j) => ~IsAncestor(tips[i], tips[j])

\* the record of the octopus workspace the last command created is as the
\* caller's parent refs say
OctopusRecorded(is) ==
    /\ EntryOf(is, RepoKey(cmd.cwd), cmd.branch) # << >>
    /\ LET record == EntryOf(is, RepoKey(cmd.cwd), cmd.branch)[1]
           normalized == StrippedRefs(cmd.parent_refs)
       IN  /\ record.kind = S("octopus")
           /\ record.octopus_parents = normalized
           /\ record.base_ref = normalized[1]

\* the last command was not given the workspace of the branch in the repo
\* keyed k to create or to remove
OtherWorkspace(k, branch) ==
    /\ cmd.name \in {"ensure_repo_tracked", "create", "create-octopus", "delete", "prune"}
    /\ cmd.name \in {"create", "create-octopus", "delete"} =>
           ~(k = RepoKey(cmd.cwd) /\ branch = cmd.branch)

\* the octopus workspaces the last command was not about have the parents
\* and the base they had
ParentsKept(was, is) ==
    \A k \in DOMAIN was.repos \cap DOMAIN is.repos, b \in WsBranchSet :
        (/\ OtherWorkspace(k, b)
         /\ EntryOf(was, k, b) # << >>
         /\ EntryOf(is, k, b) # << >>) =>
            /\ EntryOf(is, k, b)[1].octopus_parents = EntryOf(was, k, b)[1].octopus_parents
            /\ EntryOf(is, k, b)[1].base_ref = EntryOf(was, k, b)[1].base_ref
            /\ EntryOf(is, k, b)[1].kind = EntryOf(was, k, b)[1].kind

\* C25 as stated: the stored octopus_parents of an octopus workspace are the
\* caller's trimmed, non-empty parent refs in the order given, base_ref is
\* the first of them, and the parents of the merge commit created are the
\* tips of those refs in that order; ensure_repo_tracked and the creation,
\* deletion and pruning of other workspaces leave the stored sequence alone.
C25_OctopusParentsInOrder ==
    cmd.name # "none" => \A was \in {MetadataOf(cmd.before)}, is \in {MetadataOf(Now)} :
        /\ (cmd.name = "create-octopus" /\ cmd.status = "returned") =>
               /\ OctopusRecorded(is)
               /\ refs[HeadRef(cmd.branch)].parents
                      = ParentTips(cmd.before, StrippedRefs(cmd.parent_refs))
        /\ ParentsKept(was, is)

\* C25, amended: the stored octopus_parents and base_ref are as stated and
\* are left alone by later operations; the branch is left at a merge commit
\* whose parents are the tips of the parent refs in the order given where no
\* parent after the first has a tip that is another parent's tip or
\* reachable from it. (git merge records no such parent, and makes no commit
\* where every parent is reachable from the first.)
C25_OctopusParentsOfDivergentTips ==
    cmd.name # "none" => \A was \in {MetadataOf(cmd.before)}, is \in {MetadataOf(Now)} :
        /\ (cmd.name = "create-octopus" /\ cmd.status = "returned") =>
               /\ OctopusRecorded(is)
               /\ Divergent(ParentTips(cmd.before, StrippedRefs(cmd.parent_refs))) =>
                      refs[HeadRef(cmd.branch)].parents
                          = ParentTips(cmd.before, StrippedRefs(cmd.parent_refs))
        /\ ParentsKept(was, is)

\* the octopus workspace alpha of release and main, in this order, has been
\* created, and a standard workspace beta after it
C25_Witness ==
    /\ cmd.name = "create" /\ cmd.branch = "beta" /\ cmd.status = "returned"
    /\ EntryOf(MetadataOf(cmd.before), RepoKey("A"), "alpha") # << >>
    /\ EntryOf(MetadataOf(Now), RepoKey("A"), "alpha") # << >>
    /\ EntryOf(MetadataOf(Now), RepoKey("A"), "alpha")[1].octopus_parents
           = <<S("release"), S("main")>>
    /\ refs[HeadRef("alpha")].parents = <<BranchOid("release"), BranchOid("main")>>
    /\ refs[HeadRef("alpha")].message = <<"Create octopus workspace", "alpha">>

\* -------------------------------------------- Claims on update and absorb

UpdateCommandNames == {"update_octopus_workspace", "update_non_octopus_workspace"}

\* the command moved the workspace branch or began its rebase
StartedRewriting(log) ==
    \E i \in DOMAIN log : log[i] \in {"reset", "merge", "cherry-pick", "rebase"}

\* the tip of the workspace branch of the last command, in the repository g
WorkspaceTip(g) == g.refs[HeadRef(cmd.workspace.branch[1])]

\* C27: an update that raises after it has begun to rewrite the workspace
\* branch (the octopus merge or replay failed after reset --hard, the rebase
\* of a standard workspace failed) leaves the branch at the commit it was at
\* before the update, so that every commit that was on the branch is still
\* reachable from it.
C27_FailedUpdateRestoresBranch ==
    (/\ cmd.name \in UpdateCommandNames
     /\ cmd.status = "raised"
     /\ StartedRewriting(cmd.log))
        => WorkspaceTip(Now) = WorkspaceTip(cmd.before)

\* workspace.tracked_remote or default_remote, of the last command
EffectiveRemote == PyOr(cmd.workspace.tracked_remote, cmd.default_remote)

\* the ref a declared parent stands for: the remote-tracking ref where the
\* repository has it, the local branch otherwise
DeclaredRef(g, parent) ==
    IF EffectiveRemote # None /\ RemoteRef(EffectiveRemote.v[1], parent[1]) \in DOMAIN g.refs
    THEN RemoteRef(EffectiveRemote.v[1], parent[1])
    ELSE HeadRef(parent[1])

\* The commits made on a workspace branch: those of its first-parent chain,
\* oldest first, down to its merge commit or to the history of the parents.
RECURSIVE PostMergeCommits(_, _)
PostMergeCommits(tip, parent_tips) ==
    IF IsMergeCommit(tip) \/ \E i \in DOMAIN parent_tips : IsAncestor(tip, parent_tips[i])
    THEN << >>
    ELSE IF tip.parents = << >> THEN <<tip>>
    ELSE Append(PostMergeCommits(tip.parents[1], parent_tips), tip)

\* the last command's resolved parent refs are the declared refs, in order
ResolvedAsDeclared ==
    /\ Len(cmd.parent_refs) = Len(cmd.workspace.octopus_parents)
    /\ \A i \in DOMAIN cmd.parent_refs :
          cmd.parent_refs[i] = DeclaredRef(Now, cmd.workspace.octopus_parents[i])

ResolvedTips == [i \in DOMAIN cmd.parent_refs |-> refs[cmd.parent_refs[i]]]

\* the workspace branch is the rebuilt merge commit of the resolved tips and,
\* on it, the commits that were made on the branch, in their order
RebuiltAndReplayed ==
    WorkspaceTip(Now) =
        PickedOnto(PostMergeCommits(WorkspaceTip(cmd.before), ResolvedTips),
                   Commit(<<"Rebuild octopus workspace", cmd.workspace.branch[1]>>,
                          ResolvedTips))

\* a declared parent is neither a remote-tracking ref nor a local branch
SomeParentMissing ==
    \E i \in DOMAIN cmd.workspace.octopus_parents :
        DeclaredRef(Now, cmd.workspace.octopus_parents[i]) \notin DOMAIN refs

\* an octopus update of a parent that is missing raises octopus-parent-missing
\* and has not touched the workspace branch
MissingParentRaisesFirst ==
    /\ (/\ SomeParentMissing
        /\ cmd.workspace.kind = S("octopus")
        /\ Len(cmd.workspace.octopus_parents) >= 2
        /\ cmd.fail = <<"none">>)
           => cmd.status = "raised" /\ cmd.code = "octopus-parent-missing"
    /\ cmd.code = "octopus-parent-missing"
           => /\ SomeParentMissing
              /\ WorkspaceTip(Now) = WorkspaceTip(cmd.before)
              /\ current = cmd.before.current
              /\ \A i \in DOMAIN cmd.log : cmd.log[i] = "fetch"

\* C26, as stated: an octopus update that returns has resolved every declared
\* parent to <remote>/<parent> where that remote-tracking ref exists and to
\* the local branch otherwise, and leaves the workspace branch as a new merge
\* commit whose parents are the resolved parents' tips in declared order,
\* followed by the post-merge commits replayed in their order; a declared
\* parent that resolves to neither raises octopus-parent-missing before the
\* workspace branch is modified.
C26_UpdateRebuildsMerge ==
    cmd.name = "update_octopus_workspace" =>
        /\ cmd.status = "returned" => ResolvedAsDeclared /\ RebuiltAndReplayed
        /\ MissingParentRaisesFirst

\* C26, amended: the same, where no resolved parent after the first has a tip
\* that equals or is reachable from another resolved parent's tip.
C26_UpdateRebuildsMergeOfDivergentTips ==
    cmd.name = "update_octopus_workspace" =>
        /\ cmd.status = "returned" =>
              /\ ResolvedAsDeclared
              /\ Divergent(ResolvedTips) => RebuiltAndReplayed
        /\ MissingParentRaisesFirst

\* the remote has a commit more on main and on release, and the update of
\* the workspace with two post-merge commits has rebuilt the merge on the
\* remote-tracking refs and replayed both
C26_Witness ==
    /\ cmd.name = "update_octopus_workspace" /\ cmd.status = "returned"
    /\ cmd.parent_refs = <<RemoteRef(Remote, "main"), RemoteRef(Remote, "release")>>
    /\ Len(cmd.commits) = 2
    /\ refs[RemoteRef(Remote, "main")] # refs[HeadRef("main")]
    /\ refs[RemoteRef(Remote, "release")] # refs[HeadRef("release")]
    /\ Change(WorkspaceTip(Now).message) = <<"post-merge 2">>
    /\ WorkspaceTip(Now).parents[1].parents[1]
           = Commit(<<"Rebuild octopus workspace", OctopusBranch>>,
                    <<refs[RemoteRef(Remote, "main")], refs[RemoteRef(Remote, "release")]>>)
    /\ WorkspaceTip(Now) # WorkspaceTip(cmd.before)

\* the octopus merge commit of a workspace branch: the nearest merge commit
\* on the first-parent chain of its tip, None where the chain has none
RECURSIVE OctopusMergeCommit(_)
OctopusMergeCommit(tip) ==
    IF IsMergeCommit(tip) THEN Some(tip)
    ELSE IF tip.parents = << >> THEN None
    ELSE OctopusMergeCommit(tip.parents[1])

\* the explicit target of the last command is one of the declared parents
TargetDeclared ==
    \E i \in DOMAIN cmd.workspace.octopus_parents :
        cmd.workspace.octopus_parents[i] = cmd.target_parent.v

\* the tip of the explicit target of the last command, in the repository g
TargetTip(g) == g.refs[HeadRef(RefBranch(cmd.target_parent.v))]

\* every post-merge commit is on the target, in order, and the workspace
\* branch is its octopus merge commit
AbsorbedOntoTarget ==
    LET merge_commit == OctopusMergeCommit(WorkspaceTip(cmd.before))
        post_merge_commits == PostMergeCommits(WorkspaceTip(cmd.before), << >>)
    IN  /\ merge_commit # None
        /\ WorkspaceTip(Now) = merge_commit.v
        /\ TargetTip(Now) = PickedOnto(post_merge_commits, TargetTip(cmd.before))
        /\ cmd.commits = [i \in DOMAIN post_merge_commits |->
                             [commit |-> post_merge_commits[i],
                              target_parent |-> cmd.target_parent.v]]

\* an explicit target that is not declared raises invalid-absorb-target, and
\* nothing has been checked out or cherry-picked
UndeclaredTargetRaisesFirst ==
    (/\ ~TargetDeclared
     /\ cmd.workspace.kind = S("octopus")
     /\ Len(cmd.workspace.octopus_parents) >= 2)
        => /\ cmd.status = "raised" /\ cmd.code = "invalid-absorb-target"
           /\ cmd.log = << >>
           /\ Now = cmd.before

\* C29, as stated: absorb with an explicit target that is one of
\* octopus_parents cherry-picks every post-merge commit onto the target in
\* their order and resets the workspace branch to its octopus merge commit,
\* which is result.after_oid; an explicit target that is not one of
\* octopus_parents raises invalid-absorb-target before any checkout or
\* cherry-pick.
C29_AbsorbMovesAndResets ==
    (cmd.name = "absorb_octopus_workspace" /\ cmd.target_parent # None) =>
        /\ (TargetDeclared /\ cmd.status = "returned") => AbsorbedOntoTarget
        /\ UndeclaredTargetRaisesFirst

\* C29, amended: the same for a workspace branch that has an octopus merge
\* commit; the branch of a workspace that was created without one (its
\* parents' tips were not divergent) is left where it is.
C29_AbsorbMovesAndResetsToMerge ==
    (cmd.name = "absorb_octopus_workspace" /\ cmd.target_parent # None) =>
        /\ (TargetDeclared /\ cmd.status = "returned") =>
              IF OctopusMergeCommit(WorkspaceTip(cmd.before)) # None
              THEN AbsorbedOntoTarget
              ELSE WorkspaceTip(Now) = WorkspaceTip(cmd.before)
        /\ UndeclaredTargetRaisesFirst

\* the two post-merge commits of the workspace have been absorbed into
\* release, and the workspace branch is its merge commit of main and release
C29_Witness ==
    /\ cmd.name = "absorb_octopus_workspace" /\ cmd.status = "returned"
    /\ cmd.target_parent = Some(S("release"))
    /\ Len(cmd.commits) = 2
    /\ IsMergeCommit(WorkspaceTip(Now))
    /\ WorkspaceTip(Now).parents = <<cmd.before.refs[HeadRef("main")],
                                     cmd.before.refs[HeadRef("release")]>>
    /\ Change(refs[HeadRef("release")].message) = <<"post-merge 2">>
    /\ Change(refs[HeadRef("release")].parents[1].message) = <<"post-merge 1">>
    /\ refs[HeadRef("release")].parents[1].parents[1] = cmd.before.refs[HeadRef("release")]
    /\ current = cmd.before.current

\* ------------------------------------------ Claims on the absorb heuristic

\* the parents of the call, each once
ParentSet == {cmd.parents[i] : i \in DOMAIN cmd.parents}

\* the number of the commit's changed paths that exist at the parent's tip
ExistingAt(parent) == Cardinality({path \in cmd.changed_files : path \in cmd.exists[parent]})

\* the parent has strictly more of the changed paths than every other parent
StrictlyHighest(parent) ==
    \A other \in ParentSet \ {parent} : ExistingAt(other) < ExistingAt(parent)

\* count / total >= 0.6
Confident(parent) == 10 * ExistingAt(parent) >= 6 * Cardinality(cmd.changed_files)

\* C28: the heuristic returns the parent that has strictly the most of the
\* commit's changed paths, provided these are 0.6 of the changed paths or
\* more (exactly 0.6 is accepted); it raises absorb-target-uncertain where
\* the commit changes no path, two parents tie for the most, or the ratio is
\* below 0.6. Where all changed paths exist at exactly one parent, that
\* parent is returned.
C28_HeuristicTarget ==
    cmd.name = "_heuristic_target_parent" =>
        /\ IF /\ cmd.changed_files # {}
              /\ \E parent \in ParentSet : StrictlyHighest(parent) /\ Confident(parent)
           THEN /\ cmd.status = "returned"
                /\ cmd.target \in ParentSet
                /\ StrictlyHighest(cmd.target)
           ELSE cmd.status = "raised" /\ cmd.code = "absorb-target-uncertain"
        /\ \A parent \in ParentSet :
              (/\ cmd.changed_files # {}
               /\ ExistingAt(parent) = Cardinality(cmd.changed_files)
               /\ \A other \in ParentSet \ {parent} : ExistingAt(other) = 0)
                  => cmd.status = "returned" /\ cmd.target = parent

\* three of the five changed paths exist at release, fewer at main and at
\* hotfix, and release is returned
C28_Witness ==
    /\ cmd.name = "_heuristic_target_parent" /\ cmd.status = "returned"
    /\ cmd.parents = <<S("main"), S("release"), S("hotfix")>>
    /\ cmd.changed_files = Paths
    /\ ExistingAt(S("release")) = 3
    /\ ExistingAt(S("main")) = 2
    /\ ExistingAt(S("hotfix")) = 1
    /\ cmd.target = S("release")

\* --------------------------------------------------- Claims on the orchestrator

\* C30: run raises not-in-git-repo for a cwd outside a repository, else
\* git-operation-in-progress, naming a marker that exists, where there is
\* one, and only then calls ensure_repo_tracked: once, with cwd, for new,
\* delete, prune, update and absorb, never for another command. A run that
\* did not call it has left the metadata file as it was.
C30_PreflightThenTrack ==
    cmd.name = "run" =>
        /\ cmd.cwd = Outside =>
              /\ cmd.status = "raised" /\ cmd.code = "not-in-git-repo"
              /\ cmd.ensure_calls = << >>
        /\ (cmd.cwd # Outside /\ cmd.markers # {}) =>
              /\ cmd.status = "raised" /\ cmd.code = "git-operation-in-progress"
              /\ cmd.details # None /\ cmd.details.v \in cmd.markers
              /\ cmd.ensure_calls = << >>
        /\ (cmd.cwd # Outside /\ cmd.markers = {}) =>
              cmd.ensure_calls =
                  IF cmd.command_name \in {"new", "delete", "prune", "update", "absorb"}
                  THEN <<cmd.cwd>> ELSE << >>
        /\ cmd.ensure_calls = << >> =>
              /\ files = cmd.before.files
              /\ \A i \in DOMAIN cmd.log : cmd.log[i] # MetadataWrite

\* run for update, where no operation is in progress and no metadata file
\* exists, has called ensure_repo_tracked once and the repository is tracked
C30_Witness ==
    /\ cmd.name = "run" /\ cmd.status = "returned"
    /\ cmd.command_name = "update"
    /\ cmd.ensure_calls = <<"A">>
    /\ cmd.before.files = << >>
    /\ RepoKey("A") \in DOMAIN MetadataOf(Now).repos

HistoryCommandNames ==
    {"update_octopus_workspace", "absorb_octopus_workspace", "absorb_octopus_workspace again"}

\* the commits the last command set out to replay or to absorb
CommitsToMove ==
    IF cmd.name = "update_octopus_workspace" THEN cmd.commits
    ELSE [i \in DOMAIN cmd.commits |-> cmd.commits[i].commit]

\* C34: the commits an octopus update sets out to replay, and the commits an
\* absorb sets out to move, include no merge commit, whatever the resolved
\* parents are relative to the commits that were merged.
C34_NoMergeCommitToMove ==
    cmd.name \in HistoryCommandNames =>
        \A i \in DOMAIN CommitsToMove : ~IsMergeCommit(CommitsToMove[i])

\* the absorb whose k-th cherry-pick was made to fail, the picks before it
\* having been made
FailedPick ==
    IF /\ cmd.name = "absorb_octopus_workspace"
       /\ cmd.status = "raised"
       /\ cmd.fail[1] \in {"cherry-pick", "cherry-pick-refused"}
       /\ cmd.commits # << >>
    THEN IF cmd.fail[2] <= Len(cmd.commits) THEN cmd.fail[2] ELSE 0
    ELSE 0

\* the tip of the parent the i-th post-merge commit was planned onto
PlannedTip(g, i) == g.refs[HeadRef(RefBranch(cmd.commits[i].target_parent))]

\* the parts of C35 that concern the refs: no commit from the k-th on is on
\* its parent, the commits before the k-th are, and the workspace branch is
\* where it was
FailedPickKeepsEarlierPicks ==
    FailedPick > 0 =>
        /\ \A i \in DOMAIN cmd.commits :
              HasChange(cmd.commits[i].commit.message, PlannedTip(Now, i)) <=> i < FailedPick
        /\ WorkspaceTip(Now) = WorkspaceTip(cmd.before)

\* C35: when the cherry-pick of the k-th post-merge commit fails during
\* absorb, no later commit is picked, the workspace branch is not reset, the
\* commits picked before stay on their parents, the branch that was checked
\* out before the call is checked out again, and absorb raises
\* absorb-cherry-pick-failed.
C35_FailedPickAborts ==
    FailedPick > 0 =>
        /\ FailedPickKeepsEarlierPicks
        /\ cmd.before.current # None => current = cmd.before.current
        /\ cmd.code = "absorb-cherry-pick-failed"

\* the second pick of two has stopped on conflicts, the first is on its parent
C35_SecondPickFailed ==
    /\ FailedPick = 2
    /\ cmd.fail[1] = "cherry-pick"
    /\ HasChange(cmd.commits[1].commit.message, PlannedTip(Now, 1))

\* the last command was an octopus update or an absorb that checked out a
\* branch, called with a branch checked out
CheckedOutFromBranch ==
    /\ cmd.name \in {"update_octopus_workspace", "absorb_octopus_workspace"}
    /\ \E i \in DOMAIN cmd.log : cmd.log[i] = "checkout"
    /\ cmd.before.current # None

\* C36: after update_octopus_workspace or absorb_octopus_workspace, whether
\* it returned or raised after checking out another branch, the branch
\* checked out is the one that was checked out before the call, unless HEAD
\* was detached.
C36_OriginalBranchCheckedOut ==
    CheckedOutFromBranch => current = cmd.before.current

\* where the command leaves no conflicts in the worktree and no checkout of
\* the original branch is made to fail, the original branch is checked out
OriginalBranchCheckedOutUnlessConflicts ==
    (/\ CheckedOutFromBranch
     /\ dirty = {}
     /\ cmd.fail # <<"checkout", cmd.before.current.v>>) => current = cmd.before.current

\* the codes _plan_absorb_targets raises
TargetSelectionCodes == {"absorb-target-uncertain", "invalid-absorb-target"}

\* C37: absorb determines the target parent of every post-merge commit
\* before any checkout or cherry-pick: when target selection fails for a
\* commit, no git command that moves a ref or HEAD has run, every ref is
\* where it was and the checked-out branch is unchanged.
C37_TargetsPlannedBeforeMoving ==
    (cmd.name = "absorb_octopus_workspace" /\ cmd.code \in TargetSelectionCodes) =>
        /\ cmd.log = << >>
        /\ refs = cmd.before.refs
        /\ current = cmd.before.current
        /\ dirty = cmd.before.dirty

\* an interactive absorb of two post-merge commits whose selector answered a
\* parent for the first commit and a branch that is no parent for the second
C37_Witness ==
    /\ cmd.name = "absorb_octopus_workspace"
    /\ cmd.code = "invalid-absorb-target"
    /\ cmd.target_parent = None
    /\ cmd.remote.interactive
    /\ cmd.remote.chooser = Some(<<S("release"), S("hotfix")>>)
    /\ cmd.workspace.octopus_parents = <<S("main"), S("release")>>
    /\ WorkspaceTip(cmd.before).message = <<"post-merge 2">>
    /\ IsMergeCommit(WorkspaceTip(cmd.before).parents[1].parents[1])

\* the last command was an absorb that found no post-merge commit
NothingToAbsorb ==
    /\ cmd.name \in {"absorb_octopus_workspace", "absorb_octopus_workspace again"}
    /\ cmd.status = "returned"
    /\ cmd.commits = << >>

\* absorb has been called again right after an absorb that returned having
\* absorbed commits
AbsorbedTwice ==
    /\ cmd.name = "absorb_octopus_workspace again"
    /\ cmd.first.commits # << >>

\* the command changed nothing: no git command ran, the refs and the
\* checked-out branch are where they were
NoOp ==
    /\ cmd.status = "returned"
    /\ cmd.commits = << >>
    /\ cmd.log = << >>
    /\ refs = cmd.before.refs
    /\ current = cmd.before.current

\* C38: absorb is idempotent: with no post-merge commits it returns without
\* any checkout and changes nothing, and an absorb called again right after
\* a successful absorb is such a no-op.
C38_AbsorbIdempotent ==
    /\ NothingToAbsorb => NoOp
    /\ AbsorbedTwice => NoOp

\* C38, amended: the second absorb is a no-op where the workspace branch
\* had an octopus merge commit for the first absorb to reset it to; where
\* it had none, the branch keeps its commits and the second absorb raises.
C38_AbsorbIdempotentAfterReset ==
    /\ NothingToAbsorb => NoOp
    /\ AbsorbedTwice =>
          IF OctopusMergeCommit(WorkspaceTip(cmd.first.before)) # None THEN NoOp
          ELSE cmd.status = "raised" /\ WorkspaceTip(Now) = WorkspaceTip(cmd.first.before)

\* an absorb of two commits onto release, and the absorb called again after
\* it, which found nothing to absorb
C38_Witness ==
    /\ AbsorbedTwice
    /\ Len(cmd.first.commits) = 2
    /\ NoOp
    /\ HasChange(<<"post-merge 2">>, refs[HeadRef("release")])

\* ensure_repo_tracked has returned
EnsureReturned == cmd.name = "ensure_repo_tracked" /\ cmd.status = "returned"

\* the repo record ensure_repo_tracked(cwd) leaves, given the metadata before
EnsuredRepoRecord(before, cwd) ==
    [git_dir |-> Resolve(CwdRepo(cwd).git_dir),
     repo_root |-> CwdRepo(cwd).repo_root,
     default_remote |-> CwdRepo(cwd).default_remote,
     tracked_at |-> IF RepoKey(cwd) \in DOMAIN before.repos
                    THEN before.repos[RepoKey(cwd)].tracked_at ELSE CreateTimestamp,
     updated_at |-> CreateTimestamp,
     workspaces |-> IF RepoKey(cwd) \in DOMAIN before.repos
                    THEN before.repos[RepoKey(cwd)].workspaces ELSE << >>]

\* C31: ensure_repo_tracked is idempotent: the repo is under its canonical
\* git_dir key afterwards, with tracked_at and workspaces kept if it was
\* tracked and tracked_at = now and no workspaces if it was not, updated_at
\* = now, repo_root and default_remote as git reports them; every other
\* repo's record is unchanged; and a second call with the same clock value
\* leaves the file the first call left.
C31_EnsureRepoTrackedIdempotent ==
    EnsureReturned =>
        /\ DOMAIN MetadataOf(Now).repos
               = DOMAIN MetadataOf(cmd.before).repos \cup {RepoKey(cmd.cwd)}
        /\ \A k \in DOMAIN MetadataOf(Now).repos :
              MetadataOf(Now).repos[k] =
                  IF k = RepoKey(cmd.cwd)
                  THEN EnsuredRepoRecord(MetadataOf(cmd.before), cmd.cwd)
                  ELSE MetadataOf(cmd.before).repos[k]
        /\ EnsureRepoTracked(Now, cmd.cwd, <<"none">>).g.files = files

\* ensure_repo_tracked ran for a repository that was tracked at an earlier
\* time with a workspace, beside another tracked repository, and changed
\* the file
C31_Witness ==
    /\ EnsureReturned
    /\ cmd.cwd = "A"
    /\ RepoKey("A") \in DOMAIN MetadataOf(cmd.before).repos
    /\ RepoKey("C") \in DOMAIN MetadataOf(cmd.before).repos
    /\ MetadataOf(cmd.before).repos[RepoKey("A")].workspaces # << >>
    /\ MetadataOf(Now).repos[RepoKey("A")].tracked_at # CreateTimestamp
    /\ files # cmd.before.files

\* ensure_repo_tracked has run twice in a row for the same repository, the
\* second call leaving the file as the first left it
C31_TwiceWitness ==
    /\ EnsureReturned
    /\ cmd.before.files # << >>
    /\ cmd.before.files = files
    /\ commands_left = 0
    /\ MetadataOf(Now).repos[RepoKey(cmd.cwd)].workspaces = << >>

\* ------------------------------ workspace_paths.py: derived worktree paths

\* A branch name is a sequence of pieces of text: words, and single
\* characters between them.

\* the characters outside [A-Za-z0-9._-]
UnsafeChars == {"/", " "}

\* the characters strip("-._") removes
StripChars == {"-", ".", "_"}

\* str.lower()
Lower(piece) ==
    CASE piece = "Feature" -> "feature"
      [] piece = "A" -> "a"
      [] OTHER -> piece

\* re.sub(r"[^A-Za-z0-9._-]+", "-", branch)
RECURSIVE SubUnsafe(_)
SubUnsafe(text) ==
    IF text = << >> THEN << >>
    ELSE IF Head(text) \in UnsafeChars
    THEN IF Len(text) > 1 /\ text[2] \in UnsafeChars THEN SubUnsafe(Tail(text))
         ELSE <<"-">> \o SubUnsafe(Tail(text))
    ELSE <<Head(text)>> \o SubUnsafe(Tail(text))

\* str.strip(chars)
RECURSIVE StripOf(_, _)
StripOf(text, chars) ==
    IF text = << >> THEN << >>
    ELSE IF Head(text) \in chars THEN StripOf(Tail(text), chars)
    ELSE IF text[Len(text)] \in chars THEN StripOf(SubSeq(text, 1, Len(text) - 1), chars)
    ELSE text

\* derive_branch_dir(branch)
DeriveBranchDir(branch) ==
    LET stripped == StripOf(SubUnsafe(branch), StripChars)
        sanitized == [i \in DOMAIN stripped |-> Lower(stripped[i])]
    IN  IF sanitized = << >> THEN <<"workspace">> ELSE sanitized

\* The branches workspaces are created for: feature-a, feature/a, Feature/A,
\* the branch named as the directory of feature/a is named when feature-a
\* is tracked, "..." and workspace.
PathBranches ==
    { <<"feature", "-", "a">>, <<"feature", "/", "a">>, <<"Feature", "/", "A">>,
      <<"feature", "-", "a", "-", "951d42">>, <<".", ".", ".">>, <<"workspace">> }

\* _stable_short_hash(value, length=6): hashlib.sha256(value).hexdigest()[:6],
\* of the branches of PathBranches
StableShortHash(value) ==
    CASE value = <<"feature", "-", "a">> -> "0a5491"
      [] value = <<"feature", "/", "a">> -> "951d42"
      [] value = <<"Feature", "/", "A">> -> "5914af"
      [] value = <<"feature", "-", "a", "-", "951d42">> -> "daa830"
      [] value = <<".", ".", ".">> -> "ab5df6"
      [] value = <<"workspace">> -> "21a323"

\* _has_sanitized_collision(branch, sibling_branches)
HasSanitizedCollision(branch, sibling_branches) ==
    \E sibling \in sibling_branches :
        sibling # branch /\ DeriveBranchDir(sibling) = DeriveBranchDir(branch)

\* derive_workspace_path(git_dir of the main worktree, branch,
\* sibling_branches): _workspace_root_dir() / repo_id / branch_dir, the
\* directory name as its pieces
DeriveWorkspacePathAmong(branch, sibling_branches) ==
    MkPath("/", <<"data", "gitcuttle", "demo-1a2b3c4d",
                  IF HasSanitizedCollision(branch, sibling_branches)
                  THEN DeriveBranchDir(branch) \o <<"-", StableShortHash(branch)>>
                  ELSE DeriveBranchDir(branch)>>)

\* the worktree paths of the tracked workspaces
TrackedPaths(workspaces) == {workspaces[b] : b \in DOMAIN workspaces}

PathInit ==
    /\ TxnIdle
    /\ refs = << >>
    /\ original_refs = << >>
    /\ original_metadata = EmptyMetadata
    /\ ProcsIdle
    /\ RoundTripIdle
    /\ CacheIdle
    /\ dirty = {}
    /\ current = None
    /\ files = << >>
    /\ commands_left = 1
    /\ cmd = [name |-> "none", status |-> "none", workspaces |-> << >>]

\* create_standard_workspace and create_octopus_workspace, as to the path:
\* the branch is new, the destination is derived with the tracked branches
\* as siblings, git worktree add refuses a destination that exists, and the
\* workspace is tracked at the destination
CmdCreateAt(branch) ==
    /\ branch \notin DOMAIN cmd.workspaces
    /\ \E destination \in {DeriveWorkspacePathAmong(branch, DOMAIN cmd.workspaces)} :
          cmd' = [name |-> "create", branch |-> branch, destination |-> destination,
                  before |-> cmd.workspaces,
                  status |-> IF destination \in TrackedPaths(cmd.workspaces)
                             THEN "raised" ELSE "returned",
                  workspaces |-> IF destination \in TrackedPaths(cmd.workspaces)
                                 THEN cmd.workspaces
                                 ELSE [b \in DOMAIN cmd.workspaces \cup {branch} |->
                                          IF b = branch THEN destination
                                          ELSE cmd.workspaces[b]]]
    /\ UNCHANGED <<txnVars, gitVars, files, procVars, rtVars, cacheVars, dirty, current,
                   commands_left>>

PathNext == \E branch \in PathBranches : CmdCreateAt(branch)

PathSpec == PathInit /\ [][PathNext]_vars

\* ------------------------------------------- Claims on the derived paths

\* the text of a directory name, as one sequence of pieces
SuffixedDir(branch) == DeriveBranchDir(branch) \o <<"-", StableShortHash(branch)>>

\* when the new branch sanitizes to the directory name of a tracked sibling,
\* the derived directory is the sanitized name, "-", and the first 6 hex
\* digits of sha256(branch); else it is the sanitized name
SuffixOnCollision ==
    cmd.name = "create" =>
        cmd.destination.parts[4] =
            IF \E sibling \in DOMAIN cmd.before :
                  DeriveBranchDir(sibling) = DeriveBranchDir(cmd.branch)
            THEN SuffixedDir(cmd.branch) ELSE DeriveBranchDir(cmd.branch)

\* C32: derived worktree paths are collision-free: the suffix is appended
\* on a collision of sanitized names, and, for every sequence of workspace
\* creations in one repo, the path derived for the new workspace differs
\* from the worktree path of every workspace already tracked.
C32_DerivedPathsCollisionFree ==
    /\ SuffixOnCollision
    /\ cmd.name = "create" => cmd.destination \notin TrackedPaths(cmd.before)

\* ------------------------------- Claims on the TransactionRollbackError

\* the caller has read the recovery commands and the partial state of the
\* error run() raised
Reported == cmd.name = "format_partial_state"

\* the recovery commands of the failed rollbacks, one after the other
AllRecoveryCommands ==
    Flatten([f \in DOMAIN raised.rollback_failures |->
                raised.rollback_failures[f].recovery_commands])

\* the first place of the command among all the recovery commands
FirstPlace(command) ==
    CHOOSE i \in DOMAIN AllRecoveryCommands :
        /\ AllRecoveryCommands[i] = command
        /\ \A j \in 1..(i - 1) : AllRecoveryCommands[j] # command

\* the text cut at its line breaks
RECURSIVE LinesOf(_, _)
LinesOf(text, line) ==
    IF text = << >> THEN <<line>>
    ELSE IF Head(text) = "\n" THEN <<line>> \o LinesOf(Tail(text), << >>)
    ELSE LinesOf(Tail(text), Append(line, Head(text)))

\* the lines of the partial state past its fifth: the failures, then the
\* recovery commands
ReportedFailures ==
    SubSeq(LinesOf(cmd.text, << >>), 6, 5 + Len(raised.rollback_failures))
ReportedCommands ==
    SubSeq(LinesOf(cmd.text, << >>), 6 + Len(raised.rollback_failures),
           Len(LinesOf(cmd.text, << >>)))

\* C33: recovery_commands() is the recovery commands of all failed
\* rollbacks in rollback_failures order, each at its first occurrence only;
\* format_partial_state() reports the transaction id, the failed step, each
\* rollback failure and exactly those commands in that order, or "(none
\* provided)" when there are none.
C33_RecoveryCommandsAndPartialState ==
    Reported =>
        /\ \A i, j \in DOMAIN cmd.recovery_commands :
              i < j => cmd.recovery_commands[i] # cmd.recovery_commands[j]
        /\ {cmd.recovery_commands[i] : i \in DOMAIN cmd.recovery_commands}
               = {AllRecoveryCommands[i] : i \in DOMAIN AllRecoveryCommands}
        /\ \A i, j \in DOMAIN cmd.recovery_commands :
              i < j => FirstPlace(cmd.recovery_commands[i]) < FirstPlace(cmd.recovery_commands[j])
        /\ LinesOf(cmd.text, << >>)[1] = <<"transaction id: ", TxnId>>
        /\ LinesOf(cmd.text, << >>)[2] = <<"failed step: ">> \o steps[cursor].name
        /\ ReportedFailures =
              [f \in DOMAIN raised.rollback_failures |->
                  <<"- ">> \o raised.rollback_failures[f].step_name
                      \o <<": ", raised.rollback_failures[f].error>>]
        /\ ReportedCommands =
              IF cmd.recovery_commands = << >>
              THEN << <<"deterministic recovery commands: (none provided)">> >>
              ELSE << <<"deterministic recovery commands:">> >>
                   \o [c \in DOMAIN cmd.recovery_commands |->
                          <<"- ">> \o cmd.recovery_commands[c]]

\* two rollbacks or more failed whose steps name five commands between them,
\* three of them different
C33_Witness ==
    /\ Reported
    /\ Len(raised.rollback_failures) >= 2
    /\ Len(AllRecoveryCommands) = 5
    /\ Len(cmd.recovery_commands) = 3

\* a rollback failed whose step names no recovery command
C33_NoneProvided ==
    /\ Reported
    /\ cmd.recovery_commands = << >>

\* ------------------------------------ Claims on rollbacks that raise

\* the places of the name in the names
PlacesOf(name, names) == {i \in DOMAIN names : names[i] = name}

FailureNames == [f \in DOMAIN raised.rollback_failures |-> raised.rollback_failures[f].step_name]

\* the names are of completed steps, later completed steps first
InReverseCompletionOrder(names) ==
    \A a, b \in DOMAIN names :
        a < b => \E i, j \in DOMAIN completed_steps :
                    /\ steps[completed_steps[i]].name = names[a]
                    /\ steps[completed_steps[j]].name = names[b]
                    /\ j < i

\* C39: when the rollback of a completed step raised, run has still invoked
\* the rollback of every completed step; in the TransactionRollbackError
\* every completed step is exactly once in rolled_back_steps or in
\* rollback_failures, there with its recovery commands, and both tuples are
\* in reverse completion order.
C39_EveryCompletedStepAccounted ==
    (pc = "raised" /\ raised.type = "TransactionRollbackError") =>
        /\ \A i \in DOMAIN completed_steps :
              /\ \E j \in DOMAIN calls :
                    calls[j].op = "rollback" /\ calls[j].step = completed_steps[i]
              /\ Cardinality(PlacesOf(steps[completed_steps[i]].name,
                                      raised.rolled_back_steps))
                   + Cardinality(PlacesOf(steps[completed_steps[i]].name, FailureNames)) = 1
              /\ \A f \in PlacesOf(steps[completed_steps[i]].name, FailureNames) :
                    raised.rollback_failures[f].recovery_commands
                        = steps[completed_steps[i]].recovery_commands
        /\ Len(raised.rolled_back_steps) + Len(raised.rollback_failures)
               = Len(completed_steps)
        /\ InReverseCompletionOrder(raised.rolled_back_steps)
        /\ InReverseCompletionOrder(FailureNames)

\* of four completed steps the rollback of the last raised, and of the three
\* rolled back after it one more raised and two returned
C39_Witness ==
    /\ pc = "raised"
    /\ raised.type = "TransactionRollbackError"
    /\ Len(completed_steps) = 4
    /\ ~calls[6].returned
    /\ Len(raised.rollback_failures) = 2
    /\ Len(raised.rolled_back_steps) = 2

\* ------------------------------------------- Claims on a read that raises

\* read() of p, run with no other command begun, has raised ValueError
ReadRejected(p) ==
    /\ started = 1
    /\ result[p].op = "read"
    /\ result[p].status = "raised"
    /\ result[p].error = "ValueError"
    /\ faults = 0

\* C40: read has no on-disk effect when it raises: when read rejects the
\* file, the metadata file is as it was before the call and no backup file
\* has been created, also for a file of an older version whose content is
\* invalid.
C40_RejectingReadChangesNothing ==
    \A p \in Procs :
        ReadRejected(p) =>
            /\ TextAt(files, MetaName) = result[p].before
            /\ NewBackups(p) = {}

\* a read that rejects a file it did not migrate changes nothing on disk
RejectingReadWithoutMigrationChangesNothing ==
    \A p \in Procs :
        (ReadRejected(p) /\ ~Decode(result[p].before[1]).migrated) =>
            /\ TextAt(files, MetaName) = result[p].before
            /\ NewBackups(p) = {}

====
